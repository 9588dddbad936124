---------------------------- MODULE MCKernelIpc ----------------------------
EXTENDS KernelIpc
=============================================================================
