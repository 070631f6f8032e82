-------------------------- MODULE FileOutputProofs --------------------------
(***************************************************************************)
(* What is on the disk after a run, whatever earlier runs left there and   *)
(* wherever they were killed.                                              *)
(***************************************************************************)
EXTENDS FileOutput, TLAPS

-----------------------------------------------------------------------------
(* The script                                                              *)

\* The entries of the script, one by one.
LEMMA ScriptEntries ==
    /\ Len(Script) = IF Libfuzzer THEN 8 ELSE 5
    /\ DOMAIN Script = 1 .. Len(Script)
    /\ Script[1] = <<"parent", "afl">>
    /\ Script[2] = <<"empty", "test_files">>
    /\ Script[3] = <<"empty", "replay_files">>
    /\ Script[4] = <<"write", "test_files">>
    /\ Script[5] = <<"write", "replay_files">>
    /\ Libfuzzer => /\ Script[6] = <<"parent", "libfuzzer">>
                    /\ Script[7] = <<"empty", "libfuzzer_files">>
                    /\ Script[8] = <<"write", "libfuzzer_files">>
<1>1. CASE Libfuzzer
  BY <1>1 DEF Script
<1>2. CASE ~Libfuzzer
  BY <1>2 DEF Script
<1> QED BY <1>1, <1>2

\* What is behind the script at each of its positions.
LEMMA ScriptPositions ==
    ASSUME step \in 0 .. Len(Script), Running
    PROVE  /\ Emptied("test_files") <=> step > 2
           /\ Emptied("replay_files") <=> step > 3
           /\ Emptied("libfuzzer_files") <=> step > 7
           /\ WrittenOut("test_files") <=> step > 4
           /\ WrittenOut("replay_files") <=> step > 5
           /\ ~WrittenOut("libfuzzer_files")
           /\ step \in 1 .. Len(Script)
           /\ Len(Script) = IF Libfuzzer THEN 8 ELSE 5
BY ScriptEntries DEF Emptied, WrittenOut, Running

\* The directories that a run writes to.
LEMMA OutputsAre ==
    Outputs = IF Libfuzzer THEN Dirs ELSE {"test_files", "replay_files"}
BY ScriptEntries DEF Outputs, Dirs

\* The script goes on by one entry.
LEMMA ScriptAdvances ==
    ASSUME step \in 0 .. Len(Script), Running, step' = step + 1, NEW d
    PROVE  /\ Emptied(d)' <=> Emptied(d) \/ Script[step] = <<"empty", d>>
           /\ WrittenOut(d)' <=> WrittenOut(d) \/ Script[step] = <<"write", d>>
<1>1. step \in Nat /\ step # 0
  BY ScriptEntries DEF Running
<1>2. \A n : n \in 1 .. step' - 1 <=> n \in 1 .. step - 1 \/ n = step
  BY <1>1
<1> QED BY <1>2 DEF Emptied, WrittenOut

\* Where the script is when it empties a directory.
LEMMA AtEmpty ==
    ASSUME OutputInv, Running, Op = "empty"
    PROVE  /\ Dir \in Dirs /\ Script[step] = <<"empty", Dir>>
           /\ ~Emptied(Dir) /\ ~WrittenOut(Dir) /\ ~is_open
           /\ step < Len(Script)
<1>1. step \in 0 .. Len(Script) /\ (is_open => Op = "write")
  BY DEF OutputInv, OutputTypes, OutputSoFar
<1> QED BY <1>1, ScriptEntries, ScriptPositions DEF Op, Dir, Dirs

\* Where the script is when it removes a file in the place of a parent.
LEMMA AtParent ==
    ASSUME OutputInv, Running, Op = "parent"
    PROVE  step < Len(Script) /\ ~is_open
<1>1. step \in 0 .. Len(Script) /\ (is_open => Op = "write")
  BY DEF OutputInv, OutputTypes, OutputSoFar
<1> QED BY <1>1, ScriptEntries, ScriptPositions DEF Op

\* Where the script is when it writes: the directory holds the first m targets,
\* and m is the number of the next file.
LEMMA AtWrite ==
    ASSUME OutputInv, Running, Op = "write"
    PROVE  /\ Dir \in Dirs /\ Script[step] = <<"write", Dir>>
           /\ Emptied(Dir) /\ ~WrittenOut(Dir) /\ path[Dir] = "dir"
           /\ \E m \in 0 .. count :
                /\ files[Dir] = UpTo(run, m, is_open)
                /\ Written(Dir) = 0 .. m - 1
                /\ NextFile(Dir) = m
<1>1. step \in 0 .. Len(Script) /\ count \in 0 .. MaxFiles
  BY DEF OutputInv, OutputTypes
<1>2. /\ Dir \in Dirs /\ Script[step] = <<"write", Dir>>
      /\ Emptied(Dir) /\ ~WrittenOut(Dir)
  BY <1>1, ScriptEntries, ScriptPositions DEF Op, Dir, Dirs
<1>3. DirSoFar(Dir)
  BY <1>2 DEF OutputInv, OutputSoFar
<1>4. PICK m \in 0 .. count : files[Dir] = UpTo(run, m, is_open)
  BY <1>2, <1>3 DEF DirSoFar
<1>5. m \in Nat /\ m \in 0 .. MaxFiles
  BY <1>1, <1>4, OutputAssumption
<1>6. Written(Dir) = 0 .. m - 1
  BY <1>4 DEF Written, UpTo
<1>7. NextFile(Dir) = m
  <2> DEFINE P(i) == i \notin Written(Dir) /\ \A j \in 0 .. i - 1 : j \in Written(Dir)
  <2>1. P(m)
    BY <1>5, <1>6
  <2>2. ASSUME NEW i \in 0 .. MaxFiles, P(i) PROVE i = m
    <3>1. ~(i < m)
      BY <1>5, <1>6, <2>2
    <3>2. ~(m < i)
      <4> SUFFICES ASSUME m < i PROVE FALSE
        OBVIOUS
      <4>1. m \in 0 .. i - 1
        BY <1>5
      <4> QED BY <1>5, <1>6, <2>2, <4>1
    <3> QED BY <1>5, <3>1, <3>2
  <2> HIDE DEF P
  <2>3. (CHOOSE i \in 0 .. MaxFiles : P(i)) = m
    BY <1>5, <2>1, <2>2
  <2> QED BY <2>3 DEF NextFile, P
<1> QED BY <1>2, <1>3, <1>4, <1>6, <1>7 DEF DirSoFar

-----------------------------------------------------------------------------
(* The steps                                                               *)

LEMMA OutputInit == Init => OutputInv
<1> SUFFICES ASSUME Init PROVE OutputInv
  OBVIOUS
<1>1. /\ run = 0 /\ step = 0 /\ ~finished /\ count = 0 /\ ~is_open
      /\ finished \in BOOLEAN /\ is_open \in BOOLEAN
      /\ path \in [Dirs -> {"absent", "file", "dir"}]
  BY DEF Init
<1>2. PICK n \in 0 .. MaxFiles :
         files = [d \in Dirs |->
                    IF path[d] = "dir"
                    THEN [i \in 0 .. n - 1 |-> [run |-> 0, whole |-> TRUE]]
                    ELSE NoFiles]
  BY DEF Init
<1>3. OutputTypes
  <2>1. 0 \in 0 .. Len(Script) /\ 0 \in 0 .. MaxFiles
    BY ScriptEntries, OutputAssumption
  <2>2. DOMAIN files = Dirs
    BY <1>2
  <2>3. ASSUME NEW d \in Dirs
        PROVE  IsFiles(files[d])
    <3>1. CASE path[d] = "dir"
      BY <1>2, <3>1 DEF IsFiles
    <3>2. CASE path[d] # "dir"
      BY <1>2, <3>2 DEF IsFiles, NoFiles
    <3> QED BY <3>1, <3>2
  <2> QED BY <1>1, <2>1, <2>2, <2>3 DEF OutputTypes
<1>4. OutputSoFar
  BY <1>1, <1>2 DEF OutputSoFar, Running, NoFiles
<1>5. FinishedExact /\ OneRunPerDir
  BY <1>1, <1>2 DEF FinishedExact, OneRunPerDir, NoFiles
<1> QED BY <1>3, <1>4, <1>5 DEF OutputInv

\* A directory that the current entry of the script is not about keeps what is
\* said of it when the script goes on.
LEMMA OtherDir ==
    ASSUME OutputInv, Running, step' = step + 1,
           UNCHANGED <<run, count>>, ~is_open',
           NEW d \in Dirs, path'[d] = path[d], files'[d] = files[d],
           Script[step] # <<"empty", d>>, Script[step] # <<"write", d>>
    PROVE  DirSoFar(d)'
<1>1. step \in 0 .. Len(Script) /\ count \in 0 .. MaxFiles
  BY DEF OutputInv, OutputTypes
<1>2. (Emptied(d)' <=> Emptied(d)) /\ (WrittenOut(d)' <=> WrittenOut(d))
  BY <1>1, ScriptAdvances
<1>3. DirSoFar(d)
  BY DEF OutputInv, OutputSoFar
<1>4. UpTo(run, 0, is_open') = UpTo(run, 0, FALSE) /\ 0 \in 0 .. count
  BY <1>1, OutputAssumption DEF UpTo
<1> QED BY <1>2, <1>3, <1>4 DEF DirSoFar

\* A step that stays at its entry keeps what is said of a directory it leaves
\* alone.
LEMMA SameDir ==
    ASSUME OutputInv, Running, UNCHANGED <<step, run, count>>,
           NEW d \in Dirs, path'[d] = path[d], files'[d] = files[d],
           is_open' = is_open \/ Script[step] # <<"write", d>>
    PROVE  DirSoFar(d)'
<1>1. (Emptied(d)' <=> Emptied(d)) /\ (WrittenOut(d)' <=> WrittenOut(d))
  BY DEF Emptied, WrittenOut
<1>2. DirSoFar(d)
  BY DEF OutputInv, OutputSoFar
<1> QED BY <1>1, <1>2 DEF DirSoFar

\* A new run: nothing is promised of any directory yet.
LEMMA StartOutput ==
    ASSUME OutputInv, start_run
    PROVE  OutputInv'
<1>1. /\ UNCHANGED <<is_open, path, files>> /\ run' = run + 1 /\ step' = 1
      /\ finished' = FALSE /\ count' \in 0 .. MaxFiles /\ ~Running
  BY DEF start_run
<1>2. OutputTypes'
  <2>1. run' \in Nat /\ step' \in 0 .. Len(Script)
    BY <1>1, ScriptEntries DEF OutputInv, OutputTypes
  <2> QED BY <1>1, <2>1 DEF OutputInv, OutputTypes
<1>3. \A d \in Dirs : DirSoFar(d)'
  BY <1>1 DEF DirSoFar, Emptied, WrittenOut
<1>4. OutputSoFar'
  BY <1>1, <1>3 DEF OutputInv, OutputSoFar
<1>5. FinishedExact' /\ OneRunPerDir'
  BY <1>1 DEF OutputInv, FinishedExact, OneRunPerDir
<1> QED BY <1>2, <1>4, <1>5 DEF OutputInv

\* Nothing is open and no directory is touched: the script goes on.
LEMMA ParentOutput ==
    ASSUME OutputInv, remove_parent_file
    PROVE  OutputInv'
<1>0. Running /\ Op = "parent" /\ step \in 0 .. Len(Script)
  BY DEF remove_parent_file, OutputInv, OutputTypes
<1>1. step < Len(Script) /\ ~is_open
  BY <1>0, AtParent
<1>2. /\ UNCHANGED <<run, count, is_open, path, files, finished>>
      /\ step' = step + 1
  BY <1>1 DEF remove_parent_file, Advance
<1>3. OutputTypes'
  <2>1. step' \in 0 .. Len(Script)
    BY <1>0, <1>1, <1>2, ScriptEntries
  <2> QED BY <1>2, <2>1 DEF OutputInv, OutputTypes
<1>4. ASSUME NEW d \in Dirs PROVE DirSoFar(d)'
  <2>1. Script[step] # <<"empty", d>> /\ Script[step] # <<"write", d>>
    BY <1>0 DEF Op
  <2> QED BY <1>0, <1>1, <1>2, <2>1, OtherDir
<1>5. OutputSoFar'
  BY <1>0, <1>1, <1>2, <1>4 DEF OutputInv, OutputSoFar
<1>6. FinishedExact' /\ OneRunPerDir'
  BY <1>2 DEF OutputInv, FinishedExact, OneRunPerDir
<1> QED BY <1>3, <1>5, <1>6 DEF OutputInv

\* Emptying a directory, up to the point where it is gone.
LEMMA RemoveOutput ==
    ASSUME OutputInv,
           ensure_remove_file \/ ensure_remove_entry \/ ensure_remove_dir
    PROVE  OutputInv'
<1>0. /\ Running /\ Op = "empty"
      /\ UNCHANGED <<run, step, finished, count, is_open>>
  BY DEF ensure_remove_file, ensure_remove_entry, ensure_remove_dir
<1>1. /\ Dir \in Dirs /\ Script[step] = <<"empty", Dir>>
      /\ ~Emptied(Dir) /\ ~WrittenOut(Dir) /\ ~is_open
  BY <1>0, AtEmpty
<1>2. /\ path \in [Dirs -> {"absent", "file", "dir"}]
      /\ DOMAIN files = Dirs
      /\ \A d \in Dirs : IsFiles(files[d])
      /\ \A d \in Dirs : path[d] # "dir" => DOMAIN files[d] = {}
      /\ ~finished
  BY <1>0 DEF OutputInv, OutputTypes, OutputSoFar
<1>3. /\ path' \in [Dirs -> {"absent", "file", "dir"}]
      /\ DOMAIN files' = Dirs
      /\ \A d \in Dirs : IsFiles(files'[d])
      /\ \A d \in Dirs : path'[d] # "dir" => DOMAIN files'[d] = {}
      /\ \A d \in Dirs : d # Dir => path'[d] = path[d] /\ files'[d] = files[d]
      /\ \A d \in Dirs : \A i \in DOMAIN files'[d] :
           i \in DOMAIN files[d] /\ files'[d][i] = files[d][i]
  <2>1. CASE ensure_remove_file
    BY <1>1, <1>2, <2>1 DEF ensure_remove_file
  <2>2. CASE ensure_remove_dir
    BY <1>1, <1>2, <2>2 DEF ensure_remove_dir
  <2>3. CASE ensure_remove_entry
    <3>1. UNCHANGED path /\ path[Dir] = "dir"
      BY <2>3 DEF ensure_remove_entry, is_dir
    <3>2. PICK i \in DOMAIN files[Dir] :
             files' = [files EXCEPT ![Dir] =
                         [j \in DOMAIN files[Dir] \ {i} |-> files[Dir][j]]]
      BY <2>3 DEF ensure_remove_entry
    <3>3. /\ DOMAIN files' = Dirs
          /\ files'[Dir] = [j \in DOMAIN files[Dir] \ {i} |-> files[Dir][j]]
          /\ \A d \in Dirs : d # Dir => files'[d] = files[d]
      BY <1>1, <1>2, <3>2
    <3>4. IsFiles(files'[Dir])
      BY <3>3 DEF IsFiles
    <3>5. \A j \in DOMAIN files'[Dir] :
             j \in DOMAIN files[Dir] /\ files'[Dir][j] = files[Dir][j]
      BY <3>3
    <3> QED BY <1>1, <1>2, <3>1, <3>3, <3>4, <3>5
  <2> QED BY <2>1, <2>2, <2>3
<1>4. OutputTypes'
  BY <1>0, <1>3 DEF OutputInv, OutputTypes
<1>5. ASSUME NEW d \in Dirs PROVE DirSoFar(d)'
  <2>1. CASE d = Dir
    BY <1>0, <1>1, <2>1 DEF DirSoFar, Emptied, WrittenOut, Dir
  <2>2. CASE d # Dir
    BY <1>0, <1>3, <2>2, SameDir
  <2> QED BY <2>1, <2>2
<1>6. OutputSoFar'
  BY <1>0, <1>1, <1>2, <1>3, <1>5 DEF OutputSoFar
<1>7. FinishedExact' /\ OneRunPerDir'
  BY <1>0, <1>2, <1>3 DEF OutputInv, FinishedExact, OneRunPerDir
<1> QED BY <1>4, <1>6, <1>7 DEF OutputInv

\* The directory is made anew, and it is empty.
LEMMA CreateDirOutput ==
    ASSUME OutputInv, ensure_create_dir
    PROVE  OutputInv'
<1>0. Running /\ Op = "empty" /\ path[Dir] # "dir" /\ step \in 0 .. Len(Script)
  BY DEF ensure_create_dir, is_dir, OutputInv, OutputTypes
<1>1. /\ Dir \in Dirs /\ Script[step] = <<"empty", Dir>>
      /\ ~Emptied(Dir) /\ ~WrittenOut(Dir) /\ ~is_open
      /\ step < Len(Script)
  BY <1>0, AtEmpty
<1>2. /\ UNCHANGED <<run, count, is_open, files, finished>>
      /\ step' = step + 1
      /\ path' = [path EXCEPT ![Dir] = "dir"]
  BY <1>1 DEF ensure_create_dir, Advance
<1>3. /\ path \in [Dirs -> {"absent", "file", "dir"}]
      /\ count \in 0 .. MaxFiles
      /\ IsFiles(files[Dir]) /\ DOMAIN files[Dir] = {}
      /\ \A d \in Dirs : path[d] # "dir" => DOMAIN files[d] = {}
      /\ ~finished
  BY <1>0, <1>1 DEF OutputInv, OutputTypes, OutputSoFar
<1>4. /\ path' \in [Dirs -> {"absent", "file", "dir"}]
      /\ path'[Dir] = "dir"
      /\ \A d \in Dirs : d # Dir => path'[d] = path[d]
  BY <1>1, <1>2, <1>3
<1>5. OutputTypes'
  <2>1. step' \in 0 .. Len(Script)
    BY <1>0, <1>1, <1>2, ScriptEntries
  <2> QED BY <1>2, <1>4, <2>1 DEF OutputInv, OutputTypes
<1>6. ASSUME NEW d \in Dirs PROVE DirSoFar(d)'
  <2>1. CASE d = Dir
    <3>1. files[d] = UpTo(run, 0, FALSE) /\ files[d] = UpTo(run, 0, is_open)
      BY <1>3, <2>1 DEF IsFiles, UpTo
    <3>2. 0 \in 0 .. count
      BY <1>3, OutputAssumption
    <3>3. ~WrittenOut(d)'
      BY <1>0, <1>1, <1>2, <2>1, ScriptAdvances
    <3> QED BY <1>2, <1>4, <2>1, <3>1, <3>2, <3>3 DEF DirSoFar
  <2>2. CASE d # Dir
    <3>1. Script[step] # <<"empty", d>> /\ Script[step] # <<"write", d>>
      BY <1>1, <2>2
    <3> QED BY <1>0, <1>1, <1>2, <1>4, <2>2, <3>1, OtherDir
  <2> QED BY <2>1, <2>2
<1>7. OutputSoFar'
  BY <1>1, <1>2, <1>3, <1>4, <1>6 DEF OutputSoFar
<1>8. FinishedExact' /\ OneRunPerDir'
  BY <1>2, <1>3 DEF OutputInv, FinishedExact, OneRunPerDir
<1> QED BY <1>5, <1>7, <1>8 DEF OutputInv

\* What a step that writes to the directory of its entry has to show.
LEMMA FilesWritten ==
    ASSUME OutputInv, Running, Op = "write",
           UNCHANGED <<run, step, finished, count, path>>,
           is_open' \in BOOLEAN,
           NEW f, files' = [files EXCEPT ![Dir] = f],
           NEW m \in 0 .. count, f = UpTo(run, m, is_open')
    PROVE  OutputInv'
<1>1. /\ Dir \in Dirs /\ Script[step] = <<"write", Dir>>
      /\ Emptied(Dir) /\ ~WrittenOut(Dir) /\ path[Dir] = "dir"
  BY AtWrite
<1>2. /\ DOMAIN files = Dirs /\ ~finished
      /\ \A d \in Dirs : IsFiles(files[d])
      /\ \A d \in Dirs : path[d] # "dir" => DOMAIN files[d] = {}
  BY DEF OutputInv, OutputTypes, OutputSoFar
<1>3. /\ DOMAIN files' = Dirs
      /\ files'[Dir] = f
      /\ \A d \in Dirs : d # Dir => files'[d] = files[d]
  BY <1>1, <1>2
<1>4. /\ IsFiles(f)
      /\ \A i, j \in DOMAIN f : f[i].run = f[j].run
  BY DEF IsFiles, UpTo
<1>5. OutputTypes'
  BY <1>2, <1>3, <1>4 DEF OutputInv, OutputTypes
<1>6. ASSUME NEW d \in Dirs PROVE DirSoFar(d)'
  <2>1. CASE d = Dir
    <3>1. (Emptied(d)' <=> Emptied(d)) /\ (WrittenOut(d)' <=> WrittenOut(d))
      BY DEF Emptied, WrittenOut
    <3> QED BY <1>1, <1>3, <2>1, <3>1 DEF DirSoFar
  <2>2. CASE d # Dir
    <3>1. Script[step] # <<"write", d>>
      BY <1>1, <2>2
    <3> QED BY <1>3, <2>2, <3>1, SameDir
  <2> QED BY <2>1, <2>2
<1>7. OutputSoFar'
  BY <1>1, <1>2, <1>3, <1>6 DEF OutputSoFar, Running, Op
<1>8. FinishedExact' /\ OneRunPerDir'
  BY <1>1, <1>2, <1>3, <1>4 DEF OutputInv, FinishedExact, OneRunPerDir
<1> QED BY <1>5, <1>7, <1>8 DEF OutputInv

LEMMA CreateFileOutput ==
    ASSUME OutputInv, create_file
    PROVE  OutputInv'
<1>0. /\ Running /\ Op = "write" /\ ~is_open /\ NextFile(Dir) < count
      /\ UNCHANGED <<run, step, finished, count, path>> /\ is_open' = TRUE
  BY DEF create_file
<1>1. PICK m \in 0 .. count :
         /\ files[Dir] = UpTo(run, m, is_open)
         /\ NextFile(Dir) = m
  BY <1>0, AtWrite
<1> DEFINE f == [j \in DOMAIN files[Dir] \cup {m} |->
                   IF j = m THEN [run |-> run, whole |-> FALSE]
                   ELSE files[Dir][j]]
<1>2. files' = [files EXCEPT ![Dir] = f]
  BY <1>1 DEF create_file
<1>3. m \in Nat /\ count \in Nat /\ m + 1 \in 0 .. count
  BY <1>0, <1>1, OutputAssumption DEF OutputInv, OutputTypes
<1>4. f = UpTo(run, m + 1, TRUE)
  <2>1. DOMAIN files[Dir] = 0 .. m - 1 /\ 0 .. (m + 1) - 1 = 0 .. m - 1 \cup {m}
    BY <1>1, <1>3 DEF UpTo
  <2>2. ASSUME NEW j \in 0 .. m - 1
        PROVE  files[Dir][j] = [run |-> run, whole |-> TRUE] /\ j # m
    <3>1. ~(is_open /\ j = m - 1) = TRUE
      BY <1>0
    <3>2. files[Dir][j] = [run |-> run, whole |-> ~(is_open /\ j = m - 1)]
      BY <1>1 DEF UpTo
    <3>3. j # m
      BY <1>3
    <3> QED BY <3>1, <3>2, <3>3
  <2>3. (m + 1) - 1 = m
    BY <1>3
  <2> QED BY <2>1, <2>2, <2>3 DEF UpTo
<1> HIDE DEF f
<1> QED BY <1>0, <1>2, <1>3, <1>4, FilesWritten

LEMMA WriteAllOutput ==
    ASSUME OutputInv, write_all
    PROVE  OutputInv'
<1>0. /\ Running /\ Op = "write" /\ is_open' = FALSE
      /\ UNCHANGED <<run, step, finished, count, path>>
  BY DEF write_all
<1>1. PICK m \in 0 .. count :
         /\ files[Dir] = UpTo(run, m, is_open)
         /\ Written(Dir) = 0 .. m - 1
  BY <1>0, AtWrite
<1> DEFINE f == [j \in DOMAIN files[Dir] |->
                   IF j \in Written(Dir) THEN [run |-> run, whole |-> TRUE]
                   ELSE files[Dir][j]]
<1>2. files' = [files EXCEPT ![Dir] = f]
  BY DEF write_all
<1>3. f = UpTo(run, m, FALSE)
  BY <1>1 DEF UpTo
<1> HIDE DEF f
<1> QED BY <1>0, <1>1, <1>2, <1>3, FilesWritten

\* The directory holds all the targets of the run; at the end of the script so
\* do the others.
LEMMA WriteEndOutput ==
    ASSUME OutputInv, write_end
    PROVE  OutputInv'
<1>0. /\ Running /\ Op = "write" /\ ~is_open /\ NextFile(Dir) >= count
      /\ UNCHANGED <<run, count, is_open, path, files>> /\ Advance
      /\ step \in 0 .. Len(Script)
  BY DEF write_end, OutputInv, OutputTypes
<1>1. /\ Dir \in Dirs /\ Script[step] = <<"write", Dir>>
      /\ Emptied(Dir) /\ ~WrittenOut(Dir) /\ path[Dir] = "dir"
  BY <1>0, AtWrite
<1>2. files[Dir] = UpTo(run, count, FALSE)
  <2>1. PICK m \in 0 .. count :
           files[Dir] = UpTo(run, m, is_open) /\ NextFile(Dir) = m
    BY <1>0, AtWrite
  <2>2. m = count
    BY <1>0, <2>1, OutputAssumption DEF OutputInv, OutputTypes
  <2> QED BY <1>0, <2>1, <2>2 DEF UpTo
<1>3. ~finished
  BY <1>0 DEF OutputInv, OutputSoFar
<1>4. OneRunPerDir'
  BY <1>0 DEF OutputInv, OneRunPerDir
<1>5. CASE step < Len(Script)
  <2>1. step' = step + 1 /\ UNCHANGED finished
    BY <1>0, <1>5 DEF Advance
  <2>2. OutputTypes'
    <3>1. step' \in 0 .. Len(Script)
      BY <1>0, <1>5, <2>1, ScriptEntries
    <3> QED BY <1>0, <2>1, <3>1 DEF OutputInv, OutputTypes
  <2>3. ASSUME NEW d \in Dirs PROVE DirSoFar(d)'
    <3>1. CASE d = Dir
      <4>1. Emptied(d)' /\ WrittenOut(d)'
        BY <1>0, <1>1, <2>1, <3>1, ScriptAdvances
      <4> QED BY <1>0, <1>1, <1>2, <3>1, <4>1 DEF DirSoFar
    <3>2. CASE d # Dir
      <4>1. Script[step] # <<"empty", d>> /\ Script[step] # <<"write", d>>
        BY <1>1, <3>2
      <4> QED BY <1>0, <2>1, <4>1, OtherDir
    <3> QED BY <3>1, <3>2
  <2>4. OutputSoFar' /\ FinishedExact'
    BY <1>0, <1>3, <2>1, <2>3
       DEF OutputInv, OutputSoFar, FinishedExact
  <2> QED BY <1>4, <2>2, <2>4 DEF OutputInv
<1>6. CASE ~(step < Len(Script))
  <2>1. step' = 0 /\ finished' = TRUE
    BY <1>0, <1>6 DEF Advance
  <2>2. OutputTypes'
    <3>1. step' \in 0 .. Len(Script)
      BY <2>1, ScriptEntries
    <3> QED BY <1>0, <2>1, <3>1 DEF OutputInv, OutputTypes
  <2>3. OutputSoFar'
    BY <1>0, <2>1 DEF OutputInv, OutputSoFar, Running
  <2>4. ASSUME NEW d \in Outputs PROVE files[d] = UpTo(run, count, FALSE)
    <3>1. step = Len(Script)
      BY <1>0, <1>6, ScriptEntries
    <3>2. d \in Dirs /\ (WrittenOut(d) \/ d = Dir)
      BY <1>0, <3>1, ScriptEntries, ScriptPositions, OutputsAre DEF Dirs, Dir
    <3> QED BY <1>0, <1>2, <3>2 DEF OutputInv, OutputSoFar, DirSoFar
  <2>5. FinishedExact'
    <3>1. UpTo(run, count, FALSE) =
            [i \in 0 .. count - 1 |-> [run |-> run, whole |-> TRUE]]
      BY DEF UpTo
    <3> QED BY <1>0, <2>4, <3>1 DEF FinishedExact
  <2> QED BY <1>4, <2>2, <2>3, <2>5 DEF OutputInv
<1> QED BY <1>5, <1>6

\* A killed run promises nothing, and leaves no directory with two runs.
LEMMA CrashOutput ==
    ASSUME OutputInv, crash
    PROVE  OutputInv'
<1>1. /\ step' = 0 /\ is_open' = FALSE /\ Running
      /\ UNCHANGED <<run, finished, count, path, files>>
  BY DEF crash
<1>2. OutputTypes'
  <2>1. step' \in 0 .. Len(Script)
    BY <1>1, ScriptEntries
  <2> QED BY <1>1, <2>1 DEF OutputInv, OutputTypes
<1>3. OutputSoFar'
  BY <1>1 DEF OutputInv, OutputSoFar, Running
<1>4. FinishedExact' /\ OneRunPerDir'
  BY <1>1 DEF OutputInv, FinishedExact, OneRunPerDir
<1> QED BY <1>2, <1>3, <1>4 DEF OutputInv

LEMMA StutterOutput ==
    ASSUME OutputInv, UNCHANGED vars
    PROVE  OutputInv'
<1>1. UNCHANGED <<run, step, finished, count, is_open, path, files>>
  BY DEF vars
<1>2. OutputTypes'
  BY <1>1 DEF OutputInv, OutputTypes
<1>3. Running => \A d \in Dirs : DirSoFar(d)'
  BY <1>1, SameDir
<1>4. OutputSoFar'
  BY <1>1, <1>3 DEF OutputInv, OutputSoFar, Running, Op
<1>5. FinishedExact' /\ OneRunPerDir'
  BY <1>1 DEF OutputInv, FinishedExact, OneRunPerDir
<1> QED BY <1>2, <1>4, <1>5 DEF OutputInv

\* OutputInv is inductive.
LEMMA OutputStep == OutputInv /\ [Next]_vars => OutputInv'
BY StartOutput, ParentOutput, RemoveOutput, CreateDirOutput, CreateFileOutput,
   WriteAllOutput, WriteEndOutput, CrashOutput, StutterOutput
   DEF Next, AllRunsOver

-----------------------------------------------------------------------------
(* The files on the disk                                                   *)

\* A run that comes to its end leaves in each directory it writes to exactly its
\* own targets, written whole, whatever was there before and however many
\* earlier runs were killed between any two system calls.
THEOREM FinishedRunsAreExact == Spec => []FinishedExact
<1>1. OutputInv => FinishedExact
  BY DEF OutputInv
<1> QED BY <1>1, OutputInit, OutputStep, PTL DEF Spec

\* At no time does a directory hold the targets of two runs: ensure_empty_dir
\* has removed the last old file before the first new one is created.
THEOREM RunsAreNotMixed == Spec => []OneRunPerDir
<1>1. OutputInv => OneRunPerDir
  BY DEF OutputInv
<1> QED BY <1>1, OutputInit, OutputStep, PTL DEF Spec
=============================================================================
