SPECIFICATION Spec
CONSTANTS
    MaxFaults = 4
PROPERTIES
    EnclaveSettles
    StopsOnlyUnseen
    ProxyComesBack
