--------------------------- MODULE MCCrashStates ---------------------------
(* Instances of CrashStates for TLC.                                       *)
EXTENDS CrashStates

MCPath == {<<"a">>, <<"b">>, <<"d">>, <<"d", "a">>}
OnePath == {<<"a">>}
MCFd == {3, 4}

\* ('count', 1), ('count', 3) and ('aligned', 4096), with blocks of 2 bytes.
MCMode == <<[split_mode |-> "count", splits |-> 1], [split_mode |-> "count", splits |-> 3],
            [split_mode |-> "aligned", splits |-> 2]>>

DataCalls == {"open", "lseek", "write", "pwrite", "ftruncate", "fsync"}
NameCalls == {"open", "write", "close", "ftruncate", "truncate", "link", "rename", "unlink", "mkdir", "rmdir",
              "fsync", "fdatasync", "sync", "stdout"}

\* Appends beside truncates.
AppendCalls == {"open", "write", "O_APPEND"}

=============================================================================
