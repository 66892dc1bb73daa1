------------------------------- MODULE MCKernel -------------------------------
EXTENDS Kernel

\* Threads per process, the kernel's first.
MCOneTwo == <<1, 2, 1>>
MCClientTwo == <<1, 1, 2>>
MCThree == <<1, 3>>
MCThreeOne == <<1, 3, 1>>
MCSingle == [p \in PIDs |-> 1]
=============================================================================
