----------------------------- MODULE FileOutput -----------------------------
(***************************************************************************)
(* How the chosen targets reach the disk (file_util.rs: write_files,       *)
(* write_libfuzzer_files, ensure_empty_dir, write_to_files): run after run *)
(* into the same directories, where a run may be killed, or panic on an    *)
(* unwrap, between any two system calls.                                   *)
(***************************************************************************)
EXTENDS Integers, Sequences

CONSTANTS
    Libfuzzer,      \* can_generate_libfuzzer_target
    MaxFiles,       \* bound on the number of targets of a run
    MaxRuns         \* bound on the number of runs

ASSUME OutputAssumption ==
    Libfuzzer \in BOOLEAN /\ MaxFiles \in Nat /\ MaxRuns \in Nat

Dirs == {"test_files", "replay_files", "libfuzzer_files"}

\* Fault: the replay files of an earlier run are not removed.
ScriptReplayKept ==
    << <<"parent", "afl">>, <<"empty", "test_files">>,
       <<"write", "test_files">>, <<"write", "replay_files">> >>
    \o (IF Libfuzzer
        THEN << <<"parent", "libfuzzer">>, <<"empty", "libfuzzer_files">>,
                <<"write", "libfuzzer_files">> >>
        ELSE <<>>)

\* What a run does, in order: write_files, then write_libfuzzer_files.
Script ==
    << <<"parent", "afl">>, <<"empty", "test_files">>, <<"empty", "replay_files">>,
       <<"write", "test_files">>, <<"write", "replay_files">> >>
    \o (IF Libfuzzer
        THEN << <<"parent", "libfuzzer">>, <<"empty", "libfuzzer_files">>,
                <<"write", "libfuzzer_files">> >>
        ELSE <<>>)

ParentOf(d) == IF d = "libfuzzer_files" THEN "libfuzzer" ELSE "afl"

VARIABLES
    run,        \* number of the current or last run
    step,       \* position in Script; 0 between runs
    finished,   \* the last run came to its end
    count,      \* number of targets of the run
    is_open,    \* a file was created and is not written yet
    parent,     \* parent directory -> "file" or "dir", which it may become
    path,       \* directory -> "absent", "file" or "dir"
    files       \* directory -> its files: number -> [run, whole]

vars == <<run, step, finished, count, is_open, parent, path, files>>

NoFiles == [n \in {} |-> 0]

\* Whatever was there before the first run.
Init ==
    /\ run = 0
    /\ step = 0
    /\ finished = FALSE
    /\ count = 0
    /\ is_open = FALSE
    /\ parent \in [{"afl", "libfuzzer"} -> {"file", "dir"}]
    /\ path \in [Dirs -> {"absent", "file", "dir"}]
    /\ \A d \in Dirs : parent[ParentOf(d)] = "file" => path[d] = "absent"
    /\ \E n \in 0 .. MaxFiles :
         files = [d \in Dirs |->
                    IF path[d] = "dir"
                    THEN [i \in 0 .. n - 1 |-> [run |-> 0, whole |-> TRUE]]
                    ELSE NoFiles]

-----------------------------------------------------------------------------
Running == step # 0
Op  == Script[step][1]
Dir == Script[step][2]

\* The next entry of the script, or the end of the run.
Advance ==
    IF step < Len(Script)
    THEN step' = step + 1 /\ UNCHANGED finished
    ELSE step' = 0 /\ finished' = TRUE

start_run ==
    /\ ~Running
    /\ run < MaxRuns
    /\ run' = run + 1
    /\ step' = 1
    /\ finished' = FALSE
    /\ count' \in 0 .. MaxFiles
    /\ UNCHANGED <<is_open, parent, path, files>>

\* if test_path.is_file() { fs::remove_file(&test_path).unwrap(); }
remove_parent_file ==
    /\ Running
    /\ Op = "parent"
    /\ parent' = [parent EXCEPT ![Dir] = "dir"]
    /\ Advance
    /\ UNCHANGED <<run, count, is_open, path, files>>

\* Fault: a directory that exists is taken as it is.
NeverDir(d) == FALSE

is_dir(d) == path[d] = "dir"

\* fs::remove_file(path)
ensure_remove_file ==
    /\ Running
    /\ Op = "empty"
    /\ path[Dir] = "file"
    /\ path' = [path EXCEPT ![Dir] = "absent"]
    /\ UNCHANGED <<run, step, finished, count, is_open, parent, files>>

\* fs::remove_dir_all(path): file by file, in any order, then the directory.
ensure_remove_entry ==
    /\ Running
    /\ Op = "empty"
    /\ is_dir(Dir)
    /\ \E i \in DOMAIN files[Dir] :
         files' = [files EXCEPT ![Dir] =
                     [j \in DOMAIN files[Dir] \ {i} |-> files[Dir][j]]]
    /\ UNCHANGED <<run, step, finished, count, is_open, parent, path>>

ensure_remove_dir ==
    /\ Running
    /\ Op = "empty"
    /\ is_dir(Dir)
    /\ DOMAIN files[Dir] = {}
    /\ path' = [path EXCEPT ![Dir] = "absent"]
    /\ UNCHANGED <<run, step, finished, count, is_open, parent, files>>

\* fs::create_dir_all(path)
ensure_create_dir ==
    /\ Running
    /\ Op = "empty"
    /\ path[Dir] # "file"
    /\ ~is_dir(Dir)
    /\ path' = [path EXCEPT ![Dir] = "dir"]
    /\ Advance
    /\ UNCHANGED <<run, count, is_open, parent, files>>

\* The files are written in the order of their numbers.
Written(d) == {i \in DOMAIN files[d] : files[d][i].run = run}
NextFile(d) == CHOOSE i \in 0 .. MaxFiles :
                  i \notin Written(d) /\ \A j \in 0 .. i - 1 : j \in Written(d)

\* fs::File::create(full_filename)
create_file ==
    /\ Running
    /\ Op = "write"
    /\ ~is_open
    /\ NextFile(Dir) < count
    /\ files' = [files EXCEPT ![Dir] =
                   [j \in DOMAIN files[Dir] \cup {NextFile(Dir)} |->
                      IF j = NextFile(Dir) THEN [run |-> run, whole |-> FALSE]
                      ELSE files[Dir][j]]]
    /\ is_open' = TRUE
    /\ UNCHANGED <<run, step, finished, count, parent, path>>

\* file.write_all(contents[i].as_bytes())
write_all ==
    /\ Running
    /\ Op = "write"
    /\ is_open
    /\ files' = [files EXCEPT ![Dir] =
                   [j \in DOMAIN files[Dir] |->
                      IF j \in Written(Dir) THEN [run |-> run, whole |-> TRUE]
                      ELSE files[Dir][j]]]
    /\ is_open' = FALSE
    /\ UNCHANGED <<run, step, finished, count, parent, path>>

write_end ==
    /\ Running
    /\ Op = "write"
    /\ ~is_open
    /\ NextFile(Dir) >= count
    /\ Advance
    /\ UNCHANGED <<run, count, is_open, parent, path, files>>

\* The process is killed or panics.
crash ==
    /\ Running
    /\ step' = 0
    /\ is_open' = FALSE
    /\ UNCHANGED <<run, finished, count, parent, path, files>>

AllRunsOver == ~Running /\ run = MaxRuns /\ UNCHANGED vars

Next == \/ start_run \/ remove_parent_file
        \/ ensure_remove_file \/ ensure_remove_entry \/ ensure_remove_dir
        \/ ensure_create_dir \/ create_file \/ write_all \/ write_end
        \/ crash \/ AllRunsOver

Spec == Init /\ [][Next]_vars

-----------------------------------------------------------------------------
(* Properties                                                              *)

Outputs == {Script[n][2] : n \in {n \in DOMAIN Script : Script[n][1] = "write"}}

\* A run that comes to its end leaves exactly its own targets, all written
\* whole, whatever earlier runs, also those that crashed, left behind.
FinishedExact ==
    finished =>
      \A d \in Outputs :
         files[d] = [i \in 0 .. count - 1 |-> [run |-> run, whole |-> TRUE]]

\* No directory ever mixes the targets of two runs, also not after a crash.
OneRunPerDir ==
    \A d \in Dirs : \A i, j \in DOMAIN files[d] : files[d][i].run = files[d][j].run

\* What the script has behind it when it is at step.
Emptied(d)    == \E n \in 1 .. step - 1 : Script[n] = <<"empty", d>>
WrittenOut(d) == \E n \in 1 .. step - 1 : Script[n] = <<"write", d>>

\* The first m targets of run r, the last of them perhaps not written yet.
UpTo(r, m, open) ==
    [i \in 0 .. m - 1 |-> [run |-> r, whole |-> ~(open /\ i = m - 1)]]

IsFiles(f) == f = [i \in DOMAIN f |-> f[i]]

OutputTypes ==
    /\ run \in Nat
    /\ step \in 0 .. Len(Script)
    /\ finished \in BOOLEAN
    /\ count \in 0 .. MaxFiles
    /\ is_open \in BOOLEAN
    /\ path \in [Dirs -> {"absent", "file", "dir"}]
    /\ DOMAIN files = Dirs
    /\ \A d \in Dirs : IsFiles(files[d])

\* In a running script every directory that is emptied holds the first targets
\* of this run, none until its turn to be written comes, and all of them
\* afterwards.
DirSoFar(d) ==
    /\ Emptied(d) => path[d] = "dir"
    /\ Emptied(d) /\ ~WrittenOut(d) =>
         IF Script[step] = <<"write", d>>
         THEN \E m \in 0 .. count : files[d] = UpTo(run, m, is_open)
         ELSE files[d] = UpTo(run, 0, FALSE)
    /\ WrittenOut(d) => files[d] = UpTo(run, count, FALSE)

\* What FinishedExact and OneRunPerDir need to be inductive.
OutputSoFar ==
    /\ \A d \in Dirs : path[d] # "dir" => DOMAIN files[d] = {}
    /\ is_open => Running /\ Op = "write"
    /\ finished => ~Running
    /\ Running => \A d \in Dirs : DirSoFar(d)

OutputInv == OutputTypes /\ OutputSoFar /\ FinishedExact /\ OneRunPerDir
=============================================================================
