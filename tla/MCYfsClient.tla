---------------------------- MODULE MCYfsClient ----------------------------
(***************************************************************************)
(* The workloads of two yfs_clients.  No workload of the passing run has   *)
(* both write and unlink (OneAtATime says why); file names, directory      *)
(* names and numerals are different words.                                 *)
(***************************************************************************)
EXTENDS YfsClient

\* Two files in one directory, which both clients read, write and truncate.
Files == [ops |-> {"lookup", "create", "read", "write", "setattr", "getattr"},
          files |-> {11, 12}, dirs |-> {}, sizes |-> {0, 2}, max |-> 6, faults |-> 0]

\* Nested directories and links, made, listed and unlinked by both clients.
Directories == [ops |-> {"lookup", "mknod", "mkdir", "symlink", "unlink", "readdir",
                         "readlink", "getattr"},
                files |-> {11}, dirs |-> {12}, sizes |-> {0}, max |-> 7, faults |-> 0]

\* The same with fewer requests, some of whose RPCs fail.
FailingFiles == [ops |-> {"lookup", "create", "write", "setattr", "getattr"},
                 files |-> {11}, dirs |-> {}, sizes |-> {0}, max |-> 5, faults |-> 2]

FailingDirectories == [ops |-> {"lookup", "mknod", "mkdir", "unlink"},
                       files |-> {11}, dirs |-> {12}, sizes |-> {0}, max |-> 5, faults |-> 1]

FailingLinks == [ops |-> {"lookup", "symlink", "mkdir", "readdir"},
                 files |-> {11}, dirs |-> {12}, sizes |-> {0}, max |-> 4, faults |-> 2]

Apart == {Files, Directories, FailingFiles, FailingDirectories, FailingLinks}

\* A file that one client writes and the other unlinks.
Mixed == {[ops |-> {"lookup", "create", "write", "unlink"},
           files |-> {11}, dirs |-> {}, sizes |-> {0}, max |-> 6, faults |-> 0]}

=============================================================================
