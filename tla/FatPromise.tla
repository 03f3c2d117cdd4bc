------------------------------ MODULE FatPromise ------------------------------
(***************************************************************************)
(* What the FAT module promises of one volume, without clusters, sectors   *)
(* or windows: a map from paths to directories and files, and open files   *)
(* with a position.  What a file open for writing is on the volume is not  *)
(* said before it is closed ("busy").                                      *)
(*                                                                         *)
(* After a power cut every path is as it was, except for the files that    *)
(* were open for writing and what is at or below the one path the cut call *)
(* was about.                                                              *)
(***************************************************************************)

EXTENDS Naturals, SequencesExt, FiniteSetsExt

CONSTANTS Path, Stamp, Fil, MaxLen

VARIABLES
  stored,  \* what every path is
  handle,  \* the open files; the path of a free one is <<>>
  out,     \* what the last call has returned
  faults   \* history: how often the power was cut

vars == <<stored, handle, out, faults>>

Absent == [kind |-> "absent", data |-> <<>>]
Directory == [kind |-> "dir", data |-> <<>>]
Busy == [kind |-> "busy", data |-> <<>>]
AFile(data) == [kind |-> "file", data |-> data]
Closed == [path |-> <<>>, data |-> <<>>, pos |-> 0, mode |-> {}]

Parent(p) == SubSeq(p, 1, Len(p) - 1)
IsDir(p) == IF p = <<>> THEN TRUE ELSE stored[p].kind = "dir"
Children(p) == {q \in Path : Parent(q) = p /\ stored[q].kind # "absent"}
Put(p, x) == stored' = [stored EXCEPT ![p] = x]

Init ==
  /\ stored = [p \in Path |-> Absent]
  /\ handle = [h \in Fil |-> Closed]
  /\ out = <<>>
  /\ faults = 0

\* A file is opened: one that is there, or a new and empty one.
Open(h, p, mode, data) ==
  /\ handle[h] = Closed
  /\ handle' = [handle EXCEPT ![h] = [path |-> p, data |-> data, pos |-> 0, mode |-> mode]]
  /\ \/ stored[p].kind = "file" /\ data \in {stored[p].data, <<>>}
     \/ stored[p].kind = "absent" /\ IsDir(Parent(p)) /\ data = <<>> /\ "W" \in mode
  /\ "W" \notin mode => data = stored[p].data
  /\ Put(p, IF "W" \in mode THEN Busy ELSE stored[p])
  /\ out' = <<>>

\* A read returns what was written.
Read(h, n) ==
  LET f == handle[h]
      k == Min({n, Len(f.data) - f.pos})
  IN  /\ "R" \in f.mode
      /\ out' = SubSeq(f.data, f.pos + 1, f.pos + k)
      /\ handle' = [handle EXCEPT ![h].pos = @ + k]
      /\ UNCHANGED stored

\* A write changes the units it writes, which may be fewer on a full volume.
Write(h, k, x) ==
  LET f == handle[h]
  IN  /\ "W" \in f.mode
      /\ handle' = [handle EXCEPT ![h].pos = f.pos + k,
           ![h].data = [i \in 1 .. Max({Len(f.data), f.pos + k}) |->
                          IF i \in f.pos + 1 .. f.pos + k THEN x ELSE f.data[i]]]
      /\ out' = <<>>
      /\ UNCHANGED stored

Seek(h, ofs) ==
  /\ ofs <= Len(handle[h].data)
  /\ handle' = [handle EXCEPT ![h].pos = ofs]
  /\ out' = <<>>
  /\ UNCHANGED stored

Close(h) ==
  /\ handle[h] # Closed
  /\ handle' = [handle EXCEPT ![h] = Closed]
  /\ Put(handle[h].path, IF "W" \in handle[h].mode THEN AFile(handle[h].data)
                         ELSE stored[handle[h].path])
  /\ out' = <<>>

Create(p, x) ==
  /\ stored[p] = Absent /\ IsDir(Parent(p))
  /\ Put(p, x)
  /\ out' = <<>>
  /\ UNCHANGED handle

Delete(p) ==
  /\ stored[p].kind \in {"file", "dir"} /\ Children(p) = {}
  /\ Put(p, Absent)
  /\ out' = <<>>
  /\ UNCHANGED handle

DeleteDir(p) ==
  /\ stored[p].kind = "dir"
  /\ stored' = [q \in Path |-> IF q # p /\ IsPrefix(p, q) THEN Absent ELSE stored[q]]
  /\ out' = <<>>
  /\ UNCHANGED handle

\* What was at and below p is at and below q.
Rename(p, q) ==
  LET From(r) == p \o SubSeq(r, Len(q) + 1, Len(r))
  IN  /\ stored[p].kind \in {"file", "dir"}
      /\ stored[q] = Absent /\ IsDir(Parent(q))
      /\ stored' = [r \in Path |->
           IF IsPrefix(q, r) THEN (IF From(r) \in Path THEN stored[From(r)] ELSE Absent)
           ELSE IF IsPrefix(p, r) THEN Absent ELSE stored[r]]
      /\ out' = <<>>
      /\ UNCHANGED handle

\* A listing has every object once, the usage counts all of them and their data.
List(p) ==
  /\ IsDir(p)
  /\ {Append(p, out'[i]) : i \in DOMAIN out'} = Children(p)
  /\ Len(out') = Cardinality(Children(p))
  /\ UNCHANGED <<stored, handle>>

Usage(p) ==
  LET under == {q \in Path : q # p /\ IsPrefix(p, q)}
      files == {q \in under : stored[q].kind \in {"file", "busy"}}
      Units(Q) == MapThenSumSet(LAMBDA q : Len(stored[q].data), Q)
  IN  /\ IsDir(p)
      /\ Len(out') = 3
      /\ out'[1] = Cardinality(files)
      /\ out'[2] = Cardinality({q \in under : stored[q].kind = "dir"})
      /\ (\A q \in files : stored[q].kind = "file") => out'[3] = Units(files)
      /\ UNCHANGED <<stored, handle>>

Size(p) ==
  /\ stored[p].kind # "absent"
  /\ stored[p].kind # "busy" => out' = <<Len(stored[p].data)>>
  /\ UNCHANGED <<stored, handle>>

Refuse == out' = <<>> /\ UNCHANGED <<stored, handle>>

Cut(p) ==
  /\ \A q \in Path :
       ~IsPrefix(p, q) /\ stored[q].kind # "busy" => stored'[q] = stored[q]
  /\ handle' = [h \in Fil |-> Closed]
  /\ out' = <<>>
  /\ faults' = faults + 1

Call ==
  \/ Refuse
  \/ \E h \in Fil :
       \/ \E n \in 1 .. MaxLen : Read(h, n)
       \/ \E k \in 0 .. MaxLen, x \in Stamp : Write(h, k, x)
       \/ \E ofs \in 0 .. Len(handle[h].data) : Seek(h, ofs)
       \/ Close(h)
       \/ \E p \in Path, mode \in {{"R"}, {"W"}, {"R", "W"}} :
            Open(h, p, mode, <<>>) \/ Open(h, p, mode, stored[p].data)
  \/ \E p \in Path :
       \/ Create(p, Directory) \/ Create(p, AFile(<<>>))
       \/ Delete(p) \/ DeleteDir(p) \/ Size(p)
       \/ \E q \in Path : Rename(p, q)
  \/ \E p \in Path \cup {<<>>} : List(p) \/ Usage(p)

Next == (Call /\ UNCHANGED faults) \/ \E p \in Path : Cut(p)

Spec == Init /\ [][Next]_vars

=============================================================================
