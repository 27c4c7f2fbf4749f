CONSTANTS
    Reg <- Three
    Pool <- HostRegs
    Modulus = 256
    Compute <- Calc
    Takes <- Branches
    Cells = 16
    Traces <- JitTraces
    Regs0 <- JitRegs
    Start = 252
SPECIFICATION Spec
INVARIANTS
    TypeOK
    PoolExact
    HeldWhileLive
    Simulates
CHECK_DEADLOCK FALSE
