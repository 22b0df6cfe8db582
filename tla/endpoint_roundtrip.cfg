SPECIFICATION Spec
CONSTANTS
  Octets = {0, 10, 255}
  Ports = {0, 80, 443, 999, 1000, 8080, 65535}
INVARIANT FormatsBack
CHECK_DEADLOCK FALSE
