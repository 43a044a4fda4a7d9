---------------------------- MODULE MCReplicate ----------------------------
EXTENDS Replicate

CONSTANTS p1, p2, p3

AllOps == {"open", "close", "thread", "fork", "dup", "pipe", "socket", "read",
           "write", "pread", "pwrite", "lseek", "llseek", "sendfile"}
=============================================================================
