---------------------------- MODULE FfsPathsProofs ----------------------------
(***************************************************************************)
(* What a title's file holds changes only by a request that names it, and  *)
(* the emulated NAND keeps the promise of a file system in the names of    *)
(* the titles, for every finite set of paths, every table of escaped names *)
(* and any number of descriptors, calls of a loader and power cuts.        *)
(***************************************************************************)

EXTENDS FfsPaths, FiniteSetTheorems, SequenceTheorems, WellFoundedInduction, TLAPS

-----------------------------------------------------------------------------
(* The inductive invariant *)

\* The shape of the variables.
Shaped ==
  /\ emu = [q \in VolPath |-> emu[q]]
  /\ files = [h \in Fil |-> files[h]]
  /\ todo \in Seq(CallSet)

\* A file that is open for writing is busy on the volume, and is so once.
Writers ==
  \A h \in Fil : "W" \in files[h].mode =>
    /\ files[h].path \in VolPath /\ emu[files[h].path] = Fat!Busy
    /\ \A g \in Fil \ {h} : "W" \in files[g].mode => files[g].path # files[h].path

\* The calls that a request has still to make are about what it names, and nothing
\* there is open.
NothingOpen == \A h \in Fil : files[h] = Fat!Closed
Preparing ==
  {c \in CallSet :
     c.op = "mkdir" \/ (c.op = "rmdir" /\ <<tmp>> \in Path /\ c.path = FAT_Escape(<<tmp>>))}
Renaming(p, q) ==
  {c \in CallSet :
     \/ c.op \in {"rm", "rmdir"} /\ c.path = FAT_Escape(q)
     \/ c.op = "mv" /\ c.path = FAT_Escape(p) /\ c.to = FAT_Escape(q)}
IsRename(p, q) == p \in Path /\ q \in Path /\ p # q /\ Unused(p) /\ Unused(q)
Pending ==
  \/ todo = <<>>
  \/ asked.op = "setmode" /\ NothingOpen /\ todo \in Seq(Preparing)
  \/ /\ asked.op = "rename" /\ IsRename(asked.path, asked.to)
     /\ todo \in Seq(Renaming(asked.path, asked.to))

PathsInv == Shaped /\ Writers /\ Pending

\* A step keeps the content of the files that its request does not name.
Named(p) ==
  \/ asked'.op \in {"open", "delete"} /\ p = asked'.path
  \/ asked'.op = "setmode" /\ p[1] = tmp
  \/ /\ asked'.op = "rename" /\ asked'.path # asked'.to
     /\ \/ IsPrefix(asked'.to, p)
        \/ /\ IsPrefix(asked'.path, p)
           /\ Visible'[asked'.to \o SubSeq(p, Len(asked'.path) + 1, Len(p))] = Visible[p]
Kept == \A p \in Path : Visible[p].kind = "file" /\ Visible'[p] # Visible[p] => Named(p)

-----------------------------------------------------------------------------
(* Sequences *)

\* The elements of a prefix are those of the sequence.
LEMMA PrefixIs ==
  ASSUME NEW S, NEW s \in Seq(S), NEW t \in Seq(S)
  PROVE  IsPrefix(s, t) <=> (Len(s) <= Len(t) /\ \A i \in 1 .. Len(s) : s[i] = t[i])
<1>1. ASSUME Len(s) <= Len(t)
      PROVE  /\ SubSeq(s, 1, Len(s)) = [i \in 1 .. Len(s) |-> s[i]]
             /\ SubSeq(t, 1, Len(s)) = [i \in 1 .. Len(s) |-> t[i]]
  BY <1>1
<1> QED
  BY <1>1 DEF IsPrefix

\* A sequence is its prefix and what is behind it.
LEMMA PrefixAndRest ==
  ASSUME NEW S, NEW s \in Seq(S), NEW t \in Seq(S), IsPrefix(s, t)
  PROVE  s \o SubSeq(t, Len(s) + 1, Len(t)) = t
<1>1. Len(s) <= Len(t) /\ \A i \in 1 .. Len(s) : s[i] = t[i]
  BY PrefixIs
<1> DEFINE rest == SubSeq(t, Len(s) + 1, Len(t))
<1>2. rest \in Seq(S) /\ Len(rest) = Len(t) - Len(s)
      /\ \A i \in 1 .. Len(t) - Len(s) : rest[i] = t[Len(s) + i]
  BY <1>1
<1> HIDE DEF rest
<1>3. /\ s \o rest \in Seq(S) /\ Len(s \o rest) = Len(t)
      /\ \A i \in 1 .. Len(t) : (s \o rest)[i] = t[i]
  BY SMTT(30), <1>1, <1>2
<1>4. s \o rest = t
  BY <1>3, SeqEqual
<1> QED
  BY <1>4 DEF rest

\* What is behind the first of two sequences is the second.
LEMMA RestOfConcat ==
  ASSUME NEW S, NEW s \in Seq(S), NEW t \in Seq(S)
  PROVE  IsPrefix(s, s \o t) /\ SubSeq(s \o t, Len(s) + 1, Len(s \o t)) = t
<1>1. /\ s \o t \in Seq(S) /\ Len(s \o t) = Len(s) + Len(t)
      /\ \A i \in 1 .. Len(s) : (s \o t)[i] = s[i]
      /\ \A i \in 1 .. Len(t) : (s \o t)[Len(s) + i] = t[i]
  OBVIOUS
<1>2. IsPrefix(s, s \o t)
  <2> DEFINE u == s \o t
  <2>1. u \in Seq(S) /\ Len(s) <= Len(u) /\ \A i \in 1 .. Len(s) : s[i] = u[i]
    BY <1>1
  <2> HIDE DEF u
  <2>2. IsPrefix(s, u)
    BY <2>1, PrefixIs
  <2> QED
    BY <2>2 DEF u
<1> DEFINE rest == SubSeq(s \o t, Len(s) + 1, Len(s \o t))
<1>3. rest \in Seq(S) /\ Len(rest) = Len(t) /\ \A i \in 1 .. Len(t) : rest[i] = t[i]
  BY <1>1
<1>4. rest = t
  <2> HIDE DEF rest
  <2> QED
    BY <1>3
<1> QED
  BY <1>2, <1>4

-----------------------------------------------------------------------------
(* Escaped names *)

\* The names that a title may use, and those of the volume.
Used == UNION {Range(p) : p \in Path}
Plain == Used \ Range(Escaped)
Raw == Used \cup Range(Escaped)

\* A path is a sequence of names that are not escaped ones.
LEMMA PathType ==
  ASSUME NEW p \in Path
  PROVE  p \in Seq(Plain) /\ p # <<>> /\ Len(p) \in Nat \ {0}
<1>1. p \in Seq(Range(p)) /\ p # <<>> /\ \A i \in DOMAIN p : p[i] \notin Range(Escaped)
  BY PathsAssumption
<1>2. \A i \in DOMAIN p : p[i] \in Used
  BY DEF Used, Range
<1>3. \A i \in 1 .. Len(p) : p[i] \in Plain
  BY <1>1, <1>2 DEF Plain
<1>4. p = [i \in 1 .. Len(p) |-> p[i]] /\ Len(p) \in Nat
  BY <1>1
<1> QED
  BY <1>1, <1>3, <1>4

\* An escaped path has as many names.
LEMMA EscapeType ==
  ASSUME NEW p \in Seq(Plain)
  PROVE  /\ FAT_Escape(p) \in Seq(Raw) /\ Len(FAT_Escape(p)) = Len(p)
         /\ \A i \in 1 .. Len(p) :
              FAT_Escape(p)[i] = IF p[i] \in DOMAIN Escaped THEN Escaped[p[i]] ELSE p[i]
<1>1. DOMAIN p = 1 .. Len(p) /\ Len(p) \in Nat /\ \A i \in 1 .. Len(p) : p[i] \in Plain
  OBVIOUS
<1> DEFINE e(i) == IF p[i] \in DOMAIN Escaped THEN Escaped[p[i]] ELSE p[i]
<1>2. ASSUME NEW i \in 1 .. Len(p)
      PROVE  e(i) \in Raw
  BY <1>1 DEF Raw, Plain, Range
<1>3. FAT_Escape(p) = [i \in 1 .. Len(p) |-> e(i)]
  BY <1>1 DEF FAT_Escape
<1> HIDE DEF e
<1>4. FAT_Escape(p) \in [1 .. Len(p) -> Raw]
  BY <1>2, <1>3
<1>5. FAT_Escape(p) \in Seq(Raw) /\ Len(FAT_Escape(p)) = Len(p)
  BY <1>1, <1>4
<1> QED
  BY <1>3, <1>5 DEF e

\* Two names are told apart when they are escaped.
LEMMA NamesDiffer ==
  ASSUME NEW m \in Plain, NEW n \in Plain,
         (IF m \in DOMAIN Escaped THEN Escaped[m] ELSE m)
           = (IF n \in DOMAIN Escaped THEN Escaped[n] ELSE n)
  PROVE  m = n
BY PathsAssumption DEF Plain, Range

\* A path is below another on the volume when it is for the title.
LEMMA PrefixEscaped ==
  ASSUME NEW p \in Seq(Plain), NEW q \in Seq(Plain)
  PROVE  IsPrefix(FAT_Escape(p), FAT_Escape(q)) <=> IsPrefix(p, q)
<1>1. /\ FAT_Escape(p) \in Seq(Raw) /\ Len(FAT_Escape(p)) = Len(p)
      /\ FAT_Escape(q) \in Seq(Raw) /\ Len(FAT_Escape(q)) = Len(q)
  BY EscapeType
<1>2. ASSUME NEW i \in 1 .. Len(p), Len(p) <= Len(q)
      PROVE  FAT_Escape(p)[i] = FAT_Escape(q)[i] <=> p[i] = q[i]
  <2>1. i \in 1 .. Len(q) /\ p[i] \in Plain /\ q[i] \in Plain
    BY <1>2
  <2>2. /\ FAT_Escape(p)[i] = IF p[i] \in DOMAIN Escaped THEN Escaped[p[i]] ELSE p[i]
        /\ FAT_Escape(q)[i] = IF q[i] \in DOMAIN Escaped THEN Escaped[q[i]] ELSE q[i]
    BY <2>1, EscapeType
  <2> QED
    BY <2>1, <2>2, NamesDiffer
<1>3. IsPrefix(p, q) <=> (Len(p) <= Len(q) /\ \A i \in 1 .. Len(p) : p[i] = q[i])
  BY PrefixIs
<1>4. IsPrefix(FAT_Escape(p), FAT_Escape(q))
        <=> (Len(p) <= Len(q) /\ \A i \in 1 .. Len(p) : FAT_Escape(p)[i] = FAT_Escape(q)[i])
  BY <1>1, PrefixIs
<1> QED
  BY <1>2, <1>3, <1>4

\* Two paths have different names on the volume.
LEMMA EscapeDiffers ==
  ASSUME NEW p \in Seq(Plain), NEW q \in Seq(Plain), FAT_Escape(p) = FAT_Escape(q)
  PROVE  p = q
<1>1. IsPrefix(FAT_Escape(p), FAT_Escape(q)) /\ IsPrefix(FAT_Escape(q), FAT_Escape(p))
  BY DEF IsPrefix
<1>2. IsPrefix(p, q) /\ IsPrefix(q, p)
  BY <1>1, PrefixEscaped
<1>3. /\ Len(p) = Len(q) /\ \A i \in 1 .. Len(p) : p[i] = q[i]
  BY <1>2, PrefixIs
<1> QED
  BY <1>3

\* The parts of a path are escaped one by one.
LEMMA EscapeConcat ==
  ASSUME NEW p \in Seq(Plain), NEW q \in Seq(Plain), NEW n \in Nat, n <= Len(q)
  PROVE  /\ p \o SubSeq(q, n + 1, Len(q)) \in Seq(Plain)
         /\ FAT_Escape(p \o SubSeq(q, n + 1, Len(q)))
              = FAT_Escape(p) \o SubSeq(FAT_Escape(q), n + 1, Len(q))
<1> DEFINE rest == SubSeq(q, n + 1, Len(q))
           r    == p \o rest
           eq   == FAT_Escape(q)
           ep   == FAT_Escape(p)
           er   == SubSeq(eq, n + 1, Len(q))
<1>1. rest \in Seq(Plain) /\ Len(rest) = Len(q) - n
      /\ \A i \in 1 .. Len(q) - n : rest[i] = q[n + i]
  OBVIOUS
<1>2. /\ eq \in Seq(Raw) /\ Len(eq) = Len(q) /\ ep \in Seq(Raw) /\ Len(ep) = Len(p)
      /\ \A i \in 1 .. Len(q) : eq[i] = IF q[i] \in DOMAIN Escaped THEN Escaped[q[i]] ELSE q[i]
      /\ \A i \in 1 .. Len(p) : ep[i] = IF p[i] \in DOMAIN Escaped THEN Escaped[p[i]] ELSE p[i]
  BY EscapeType
<1> HIDE DEF rest, eq, ep
<1>3. er \in Seq(Raw) /\ Len(er) = Len(q) - n /\ \A i \in 1 .. Len(q) - n : er[i] = eq[n + i]
  BY <1>2
<1>4. /\ r \in Seq(Plain) /\ Len(r) = Len(p) + (Len(q) - n)
      /\ \A i \in 1 .. Len(p) : r[i] = p[i]
      /\ \A i \in 1 .. Len(q) - n : r[Len(p) + i] = q[n + i]
  <2>1. /\ r \in Seq(Plain) /\ Len(r) = Len(p) + Len(rest)
        /\ \A i \in 1 .. Len(p) + Len(rest) : r[i] = IF i <= Len(p) THEN p[i] ELSE rest[i - Len(p)]
    BY ZenonT(30), <1>1, ConcatProperties
  <2> HIDE DEF r
  <2>2. ASSUME NEW i \in 1 .. Len(q) - n
        PROVE  r[Len(p) + i] = q[n + i]
    <3>1. Len(p) + i \in 1 .. Len(p) + Len(rest) /\ ~(Len(p) + i <= Len(p)) /\ (Len(p) + i) - Len(p) = i
      BY <1>1
    <3> QED
      BY <1>1, <2>1, <3>1
  <2> QED
    BY <1>1, <2>1, <2>2
<1> HIDE DEF r, er
<1>5. /\ FAT_Escape(r) \in Seq(Raw) /\ Len(FAT_Escape(r)) = Len(r)
      /\ \A i \in 1 .. Len(r) :
           FAT_Escape(r)[i] = IF r[i] \in DOMAIN Escaped THEN Escaped[r[i]] ELSE r[i]
  BY <1>4, EscapeType
<1> DEFINE both == ep \o er
<1>6. /\ both \in Seq(Raw) /\ Len(both) = Len(p) + (Len(q) - n)
      /\ \A i \in 1 .. Len(p) : both[i] = ep[i]
      /\ \A i \in 1 .. Len(q) - n : both[Len(p) + i] = er[i]
  <2>1. ep \in Seq(Raw) /\ er \in Seq(Raw)
    BY <1>2, <1>3
  <2>2. /\ both \in Seq(Raw) /\ Len(both) = Len(ep) + Len(er)
        /\ \A i \in 1 .. Len(ep) + Len(er) : both[i] = IF i <= Len(ep) THEN ep[i] ELSE er[i - Len(ep)]
    BY <2>1, ConcatProperties
  <2> HIDE DEF both
  <2>3. ASSUME NEW i \in 1 .. Len(q) - n
        PROVE  both[Len(p) + i] = er[i]
    <3>1. /\ Len(p) + i \in 1 .. Len(p) + (Len(q) - n) /\ ~(Len(p) + i <= Len(p))
          /\ (Len(p) + i) - Len(p) = i
      OBVIOUS
    <3> QED
      BY <1>2, <1>3, <2>2, <3>1
  <2> QED
    BY SMTT(60), <1>2, <1>3, <2>2, <2>3
<1> HIDE DEF both
<1>7. ASSUME NEW i \in 1 .. Len(r)
      PROVE  FAT_Escape(r)[i] = both[i]
  <2>1. CASE i <= Len(p)
    BY <1>2, <1>4, <1>5, <1>6, <2>1
  <2>2. CASE i > Len(p)
    <3> DEFINE j == i - Len(p)
    <3>1. j \in 1 .. Len(q) - n /\ i = Len(p) + j /\ n + j \in 1 .. Len(q)
      BY <1>4, <2>2
    <3> HIDE DEF j
    <3>2. r[i] = q[n + j] /\ both[i] = eq[n + j]
      BY <1>3, <1>4, <1>6, <3>1
    <3> QED
      BY <1>2, <1>5, <3>1, <3>2
  <2> QED
    BY <2>1, <2>2
<1>8. FAT_Escape(r) = both
  BY <1>4, <1>5, <1>6, <1>7, SeqEqual
<1> QED
  BY <1>4, <1>8 DEF both, r, er, ep, eq, rest

\* A path of the volume.
LEMMA VolPathType ==
  /\ \A p \in Path : FAT_Escape(p) \in VolPath
  /\ \A q \in VolPath : q \in Seq(Raw) /\ \E p \in Path : q = FAT_Escape(p)
BY PathType, EscapeType DEF VolPath

-----------------------------------------------------------------------------
(* The calls of the FAT module *)

\* Which files a call takes away or moves.
Touches(c, r) ==
  \/ c.op = "rm" /\ r = c.path /\ emu[r].kind = "file"
  \/ c.op = "rmdir" /\ IsPrefix(c.path, r)
  \/ /\ c.op = "mv"
     /\ \/ IsPrefix(c.to, r)
        \/ LET s == c.to \o SubSeq(r, Len(c.path) + 1, Len(r)) IN
           IsPrefix(c.path, r) /\ s \in VolPath /\ emu'[s] = emu[r]

\* A file that is neither closed nor new.
Held(r) == emu[r].kind \in {"file", "busy"}

\* A file that is moved is where it is moved to.
LEMMA RenameTouches ==
  ASSUME Shaped, NEW c \in CallSet, c.op = "mv", c.to \in VolPath,
         Fits(c.path, c.to), Fat!Rename(c.path, c.to),
         NEW r \in VolPath, Held(r), emu'[r] # emu[r]
  PROVE  Touches(c, r)
<1> DEFINE p == c.path
           q == c.to
           t == SubSeq(r, Len(p) + 1, Len(r))
           s == q \o t
<1>1. p \in VolPath /\ p \in Seq(Raw) /\ q \in Seq(Raw) /\ r \in Seq(Raw)
  BY VolPathType DEF CallSet
<1>2. emu' = [x \in VolPath |->
           IF IsPrefix(q, x)
           THEN (IF p \o SubSeq(x, Len(q) + 1, Len(x)) \in VolPath
                 THEN emu[p \o SubSeq(x, Len(q) + 1, Len(x))] ELSE Fat!Absent)
           ELSE IF IsPrefix(p, x) THEN Fat!Absent ELSE emu[x]]
  BY DEF Fat!Rename, Fat!IsPrefix, IsPrefix
<1>3. SUFFICES ASSUME ~IsPrefix(q, r)
               PROVE  IsPrefix(p, r) /\ s \in VolPath /\ emu'[s] = emu[r]
  BY DEF Touches
<1>4. IsPrefix(p, r)
  BY <1>2, <1>3
<1>5. emu[r] # Fat!Absent
  BY DEF Held, Fat!Absent
<1>6. s \in VolPath
  BY <1>4, <1>5 DEF Fits
<1>7. t \in Seq(Raw)
  BY <1>1, <1>4, PrefixIs
<1>8. p \o t = r
  BY <1>1, <1>4, PrefixAndRest
<1>9. IsPrefix(q, s) /\ SubSeq(s, Len(q) + 1, Len(s)) = t
  <2> HIDE DEF p, q, t
  <2> QED
    BY <1>1, <1>7, RestOfConcat
<1> HIDE DEF p, q, t, s
<1>10. emu'[s] = IF p \o SubSeq(s, Len(q) + 1, Len(s)) \in VolPath
                 THEN emu[p \o SubSeq(s, Len(q) + 1, Len(s))] ELSE Fat!Absent
  BY <1>2, <1>6, <1>9
<1> QED
  BY <1>4, <1>6, <1>8, <1>9, <1>10

\* What a call does to the files.
LEMMA WorkTouches ==
  ASSUME Shaped, NEW c \in CallSet, c.op = "mv" => c.to \in VolPath, Work(c) \/ Fat!Refuse
  PROVE  /\ files' = files /\ emu' = [q \in VolPath |-> emu'[q]]
         /\ \A r \in VolPath : Held(r) /\ emu'[r] # emu[r] => Touches(c, r)
<1>1. c.path \in VolPath /\ emu = [q \in VolPath |-> emu[q]]
  BY DEF CallSet, Shaped
<1>2. CASE UNCHANGED <<emu, files>>
  BY <1>1, <1>2
<1>3. ASSUME NEW x, Fat!Create(c.path, x)
      PROVE  /\ files' = files /\ emu' = [q \in VolPath |-> emu'[q]]
             /\ \A r \in VolPath : Held(r) => emu'[r] = emu[r]
  <2>1. emu' = [emu EXCEPT ![c.path] = x] /\ files' = files /\ emu[c.path] = Fat!Absent
    BY <1>3 DEF Fat!Create, Fat!Put
  <2>2. ~Held(c.path)
    BY <2>1 DEF Held, Fat!Absent
  <2> QED
    BY <1>1, <2>1, <2>2
<1>4. CASE c.op = "rm" /\ Fat!Delete(c.path)
  <2>1. emu' = [emu EXCEPT ![c.path] = Fat!Absent] /\ files' = files
        /\ emu[c.path].kind \in {"file", "dir"}
    BY <1>4 DEF Fat!Delete, Fat!Put
  <2>2. \A r \in VolPath : Held(r) /\ emu'[r] # emu[r] => r = c.path /\ emu[r].kind = "file"
    BY <1>1, <2>1 DEF Held
  <2> QED
    BY <1>1, <1>4, <2>1, <2>2 DEF Touches
<1>5. CASE c.op = "rmdir" /\ Fat!DeleteDir(c.path)
  <2>1. /\ emu' = [q \in VolPath |-> IF q # c.path /\ IsPrefix(c.path, q) THEN Fat!Absent ELSE emu[q]]
        /\ files' = files
    BY <1>5 DEF Fat!DeleteDir, Fat!IsPrefix, IsPrefix
  <2> QED
    BY <1>5, <2>1 DEF Touches
<1>6. CASE c.op = "mv" /\ Fits(c.path, c.to) /\ Fat!Rename(c.path, c.to)
  <2>1. files' = files /\ emu' = [q \in VolPath |-> emu'[q]]
    BY <1>6 DEF Fat!Rename
  <2> QED
    BY <1>6, <2>1, RenameTouches
<1>7. CASE c.op \in {"stat", "probe", "list", "usage"} /\ Work(c)
  BY <1>2, <1>7 DEF Work, Fat!Size, Fat!Usage
<1>8. CASE Fat!Refuse
  BY <1>2, <1>8 DEF Fat!Refuse
<1> QED
  BY <1>3, <1>4, <1>5, <1>6, <1>7, <1>8 DEF Work

-----------------------------------------------------------------------------
(* What the calls of a request touch *)

\* What a title sees is on the volume.
LEMMA VisibleIs ==
  \A p \in Path : Visible[p] = emu[FAT_Escape(p)] /\ Visible'[p] = emu'[FAT_Escape(p)]
BY DEF Visible

\* A SETMODE empties the folder of temporary files.
LEMMA PreparingNames ==
  ASSUME NEW c \in Preparing, NEW p \in Path, c.op = "rmdir", IsPrefix(c.path, FAT_Escape(p)),
         asked'.op = "setmode"
  PROVE  Named(p)
<1>1. <<tmp>> \in Path /\ IsPrefix(FAT_Escape(<<tmp>>), FAT_Escape(p))
  BY DEF Preparing
<1>2. <<tmp>> \in Seq(Plain) /\ p \in Seq(Plain)
  BY <1>1, PathType
<1>3. IsPrefix(<<tmp>>, p)
  BY <1>1, <1>2, PrefixEscaped
<1>4. p[1] = tmp
  <2> DEFINE one == <<tmp>>
  <2>1. one \in Seq(Plain) /\ Len(one) = 1 /\ one[1] = tmp /\ IsPrefix(one, p)
    BY <1>2, <1>3
  <2> HIDE DEF one
  <2> QED
    BY <1>2, <2>1, PrefixIs
<1> QED
  BY <1>4 DEF Named

\* A rename makes room at the new path, and moves what was at the old one.
LEMMA RenamingNames ==
  ASSUME NEW f \in Path, NEW t \in Path, f # t, NEW c \in Renaming(f, t), NEW p \in Path,
         asked'.op = "rename", asked'.path = f, asked'.to = t,
         \/ c.op = "rmdir" /\ IsPrefix(c.path, FAT_Escape(p))
         \/ Touches(c, FAT_Escape(p))
  PROVE  Named(p)
<1> DEFINE r == FAT_Escape(p)
           ef == FAT_Escape(f)
           et == FAT_Escape(t)
<1>1. /\ f \in Seq(Plain) /\ t \in Seq(Plain) /\ p \in Seq(Plain)
      /\ Len(f) \in Nat /\ Len(p) \in Nat
  BY PathType
<1>2. ASSUME IsPrefix(et, r)
      PROVE  Named(p)
  <2>1. IsPrefix(t, p)
    BY <1>1, <1>2, PrefixEscaped
  <2> QED
    BY <2>1 DEF Named
<1>3. CASE c.op \in {"rm", "rmdir"}
  <2>1. c.path = et
    BY <1>3 DEF Renaming
  <2>2. r = et => IsPrefix(et, r)
    BY DEF IsPrefix
  <2> QED
    BY <1>2, <1>3, <2>1, <2>2 DEF Touches
<1>4. CASE c.op = "mv" /\ ~IsPrefix(et, r)
  <2> DEFINE s == et \o SubSeq(r, Len(ef) + 1, Len(r))
  <2>1. c.path = ef /\ c.to = et
    BY <1>4 DEF Renaming
  <2>2. IsPrefix(ef, r) /\ s \in VolPath /\ emu'[s] = emu[r]
    BY <1>4, <2>1 DEF Touches
  <2>3. IsPrefix(f, p)
    BY <1>1, <2>2, PrefixEscaped
  <2>4. Len(f) <= Len(p)
    BY <1>1, <2>3, PrefixIs
  <2>5. Len(ef) = Len(f) /\ Len(r) = Len(p)
    BY <1>1, EscapeType
  <2> DEFINE q == t \o SubSeq(p, Len(f) + 1, Len(p))
  <2>6. q \in Seq(Plain) /\ FAT_Escape(q) = s
    <3>1. s = et \o SubSeq(r, Len(f) + 1, Len(p))
      BY <2>5
    <3> HIDE DEF s
    <3>2. q \in Seq(Plain) /\ FAT_Escape(q) = FAT_Escape(t) \o SubSeq(FAT_Escape(p), Len(f) + 1, Len(p))
      BY <1>1, <2>4, EscapeConcat
    <3> QED
      BY <3>1, <3>2
  <2> HIDE DEF s, q
  <2>7. PICK x \in Path : FAT_Escape(x) = s
    BY <2>2, VolPathType
  <2>8. x = q
    BY <2>6, <2>7, PathType, EscapeDiffers
  <2>9. Visible'[q] = Visible[p]
    BY <2>2, <2>7, <2>8, VisibleIs
  <2> QED
    BY <2>3, <2>9 DEF Named, q
<1>5. c.op \in {"rm", "rmdir", "mv"}
  BY DEF Renaming
<1> QED
  BY <1>2, <1>3, <1>4, <1>5

\* A call keeps what is open for writing, when nothing is open at what it is about.
Safe(c) ==
  \/ c.op \notin {"rmdir", "mv"}
  \/ NothingOpen
  \/ \E f, t \in Path : c \in Renaming(f, t) /\ Unused(f) /\ Unused(t)

\* A safe call leaves the files that are open for writing where they are.
LEMMA WritersStay ==
  ASSUME Shaped, Writers, NEW c \in CallSet, c.op = "mv" => c.to \in VolPath, Safe(c),
         Work(c) \/ Fat!Refuse
  PROVE  Writers' /\ files' = files
<1>1. /\ files' = files
      /\ \A r \in VolPath : Held(r) /\ emu'[r] # emu[r] => Touches(c, r)
  BY WorkTouches
<1>2. SUFFICES ASSUME NEW h \in Fil, "W" \in files[h].mode, emu[files[h].path] = Fat!Busy,
                      files[h].path \in VolPath
               PROVE  ~Touches(c, files[h].path)
  <2>1. Fat!Busy.kind = "busy"
    BY DEF Fat!Busy
  <2> QED
    BY <1>1, <1>2, <2>1 DEF Writers, Held
<1>3. files[h] # Fat!Closed /\ emu[files[h].path].kind = "busy"
  BY <1>2 DEF Fat!Closed, Fat!Busy
<1>4. CASE c.op \notin {"rmdir", "mv"}
  BY <1>3, <1>4 DEF Touches
<1>5. CASE NothingOpen
  BY <1>3, <1>5 DEF NothingOpen
<1>6. ASSUME NEW f \in Path, NEW t \in Path, c \in Renaming(f, t), Unused(f), Unused(t)
      PROVE  ~Touches(c, files[h].path)
  <2>1. ~IsPrefix(FAT_Escape(f), files[h].path) /\ ~IsPrefix(FAT_Escape(t), files[h].path)
    BY <1>3, <1>6 DEF Unused
  <2>2. c.path \in {FAT_Escape(f), FAT_Escape(t)} /\ (c.op = "mv" => c.to = FAT_Escape(t))
    BY <1>6 DEF Renaming
  <2> QED
    BY <1>3, <2>1, <2>2 DEF Touches
<1> QED
  BY <1>4, <1>5, <1>6 DEF Safe

\* A file that changes was touched.
LEMMA TouchedFirst ==
  ASSUME Shaped, NEW c \in CallSet, c.op = "mv" => c.to \in VolPath, Work(c) \/ Fat!Refuse,
         NEW p \in Path, Visible[p].kind = "file", Visible'[p] # Visible[p]
  PROVE  Touches(c, FAT_Escape(p))
BY VisibleIs, VolPathType, WorkTouches DEF Held

\* A call and what is left of its request: the parts of the invariant but Pending.
LEMMA Performed ==
  ASSUME PathsInv, NEW calls \in Seq(CallSet), calls # <<>>, Perform(calls),
         Head(calls).op = "mv" => Head(calls).to \in VolPath, Safe(Head(calls)),
         todo' \in Seq(CallSet)
  PROVE  Shaped' /\ Writers' /\ files' = files
<1> DEFINE c == Head(calls)
<1>1. c \in CallSet
  OBVIOUS
<1>2. Work(c) \/ Fat!Refuse
  BY DEF Perform
<1>3. Writers' /\ files' = files /\ emu' = [q \in VolPath |-> emu'[q]]
  BY <1>1, <1>2, WritersStay, WorkTouches DEF PathsInv
<1> QED
  BY <1>3 DEF PathsInv, Shaped

-----------------------------------------------------------------------------
(* Each step *)

\* A request that is one call, of those that take nothing away, or delete what
\* they name.
LEMMA OneCallKeeps ==
  ASSUME PathsInv, NEW op, NEW p, NEW q, NEW c \in CallSet, Receive(op, p, q, <<c>>),
         c.op \notin {"probe", "rmdir", "mv"},
         c.op = "rm" => op = "delete" /\ p \in Path /\ c.path = FAT_Escape(p)
  PROVE  PathsInv' /\ Kept
<1>1. /\ <<c>> \in Seq(CallSet) /\ <<c>> # <<>> /\ Head(<<c>>) = c /\ Tail(<<c>>) = <<>>
      /\ Perform(<<c>>) /\ asked' = [op |-> op, path |-> p, to |-> q]
  BY DEF Receive
<1>2. todo' = <<>> /\ (Work(c) \/ Fat!Refuse)
  BY <1>1 DEF Perform
<1>3. Shaped' /\ Writers'
  <2> DEFINE calls == <<c>>
  <2>1. calls \in Seq(CallSet) /\ calls # <<>> /\ Head(calls) = c /\ Perform(calls)
    BY <1>1
  <2>2. todo' \in Seq(CallSet) /\ Safe(c) /\ c.op # "mv"
    BY <1>2 DEF Safe
  <2> HIDE DEF calls
  <2> QED
    BY <2>1, <2>2, Performed
<1>4. PathsInv'
  BY <1>2, <1>3 DEF PathsInv, Pending
<1>5. ASSUME NEW x \in Path, Visible[x].kind = "file", Visible'[x] # Visible[x]
      PROVE  Named(x)
  <2>1. Touches(c, FAT_Escape(x))
    BY <1>2, <1>5, TouchedFirst DEF PathsInv
  <2>2. op = "delete" /\ p \in Path /\ FAT_Escape(x) = FAT_Escape(p)
    BY <2>1 DEF Touches
  <2>3. x = p
    BY <2>2, PathType, EscapeDiffers
  <2> QED
    BY <1>1, <2>2, <2>3 DEF Named
<1> QED
  BY <1>4, <1>5 DEF Kept

\* A call that is made.
LEMMA CallType ==
  ASSUME NEW op \in {"mkdir", "mkfile", "list", "rm", "rmdir", "mv", "probe", "stat", "usage"},
         NEW p \in Path
  PROVE  /\ CallOf(op, FAT_Escape(p), <<>>) \in CallSet
         /\ \A q \in Path : CallOf(op, FAT_Escape(p), FAT_Escape(q)) \in CallSet
BY VolPathType DEF CallOf, CallSet

\* The request that looks, makes or deletes.
LEMMA OneCallRequests ==
  ASSUME PathsInv, NEW p \in Path,
         \/ CreateDir(p) \/ CreateFile(p) \/ Delete(p) \/ ReadDir(p) \/ GetAttr(p)
         \/ Receive("look", p, <<>>, One("usage", p))
         \/ \E q \in Path : Receive("rename", p, q, One("stat", p))
  PROVE  PathsInv' /\ Kept
<1>1. ASSUME NEW op, NEW q, NEW kind \in {"mkdir", "mkfile", "list", "rm", "stat", "usage"},
             kind = "rm" => op = "delete", Receive(op, p, q, One(kind, p))
      PROVE  PathsInv' /\ Kept
  <2> DEFINE c == CallOf(kind, FAT_Escape(p), <<>>)
  <2>1. c \in CallSet /\ c.op = kind /\ c.path = FAT_Escape(p)
    BY CallType DEF CallOf
  <2>2. Receive(op, p, q, <<c>>)
    BY <1>1 DEF One, Absolute
  <2> HIDE DEF c
  <2> QED
    BY <1>1, <2>1, <2>2, OneCallKeeps
<1> QED
  BY <1>1 DEF CreateDir, CreateFile, Delete, ReadDir, GetAttr

\* What a rename does after it has looked at the new path.
LEMMA AfterProbeType ==
  ASSUME NEW p \in Path, NEW q \in Path, NEW found \in BOOLEAN
  PROVE  AfterProbe(CallOf("probe", FAT_Escape(q), FAT_Escape(p)), found) \in Seq(Renaming(p, q))
<1> DEFINE c     == CallOf("probe", FAT_Escape(q), FAT_Escape(p))
           empty == CallOf("rmdir", FAT_Escape(q), <<>>)
           away  == CallOf("rm", FAT_Escape(q), <<>>)
           move  == CallOf("mv", FAT_Escape(p), FAT_Escape(q))
           R     == Renaming(p, q)
<1>1. {empty, away, move} \subseteq R
  <2>1. {empty, away, move} \subseteq CallSet
    BY CallType
  <2>2. /\ empty.op = "rmdir" /\ empty.path = FAT_Escape(q) /\ away.op = "rm" /\ away.path = FAT_Escape(q)
        /\ move.op = "mv" /\ move.path = FAT_Escape(p) /\ move.to = FAT_Escape(q)
    BY DEF CallOf
  <2> HIDE DEF empty, away, move
  <2> QED
    BY <2>1, <2>2 DEF Renaming
<1>2. c.path = FAT_Escape(q) /\ c.to = FAT_Escape(p)
  BY DEF CallOf
<1>3. AfterProbe(c, found) = (IF found /\ emu[c.path] = Fat!Directory THEN <<empty>> ELSE <<>>)
                               \o (IF found THEN <<away>> ELSE <<>>) \o <<move>>
  BY <1>2 DEF AfterProbe
<1> HIDE DEF c, empty, away, move, R
<1>4. /\ (IF found /\ emu[c.path] = Fat!Directory THEN <<empty>> ELSE <<>>) \in Seq(R)
      /\ (IF found THEN <<away>> ELSE <<>>) \in Seq(R) /\ <<move>> \in Seq(R)
  BY <1>1
<1>5. AfterProbe(c, found) \in Seq(R)
  BY <1>3, <1>4
<1> QED
  BY <1>5 DEF c, R

\* A rename.
LEMMA RenameKeeps ==
  ASSUME PathsInv, NEW p \in Path, NEW q \in Path, Rename(p, q)
  PROVE  PathsInv' /\ Kept
<1>1. CASE Absolute(p) = Absolute(q)
  BY <1>1, OneCallRequests DEF Rename, RenameCalls
<1>2. CASE Absolute(p) # Absolute(q)
  <2> DEFINE c == CallOf("probe", FAT_Escape(q), FAT_Escape(p))
  <2>1. /\ Receive("rename", p, q, <<c>>) /\ Unused(p) /\ Unused(q) /\ p # q
    BY <1>2 DEF Rename, RenameCalls, Absolute
  <2>2. c \in CallSet /\ c.op = "probe"
    BY CallType DEF CallOf
  <2>3. PICK accepted \in BOOLEAN : todo' = AfterProbe(c, accepted)
    BY <2>1, <2>2 DEF Receive, Perform
  <2>4. todo' \in Seq(Renaming(p, q))
    BY <2>3, AfterProbeType
  <2>5. todo' \in Seq(CallSet)
    BY <2>4 DEF Renaming
  <2> HIDE DEF c
  <2>6. /\ <<c>> \in Seq(CallSet) /\ <<c>> # <<>> /\ Head(<<c>>) = c
        /\ Perform(<<c>>) /\ asked' = [op |-> "rename", path |-> p, to |-> q]
    BY <2>1, <2>2 DEF Receive
  <2>7. Shaped' /\ Writers' /\ files' = files
    BY <2>2, <2>5, <2>6, Performed DEF Safe
  <2>8. Unused(p)' /\ Unused(q)'
    BY <2>1, <2>7 DEF Unused
  <2>9. Pending'
    BY <2>1, <2>4, <2>6, <2>8 DEF Pending, IsRename
  <2>10. Work(c) \/ Fat!Refuse
    BY <2>6 DEF Perform
  <2>11. ASSUME NEW x \in Path, Visible[x].kind = "file", Visible'[x] # Visible[x]
         PROVE  FALSE
    <3>1. Touches(c, FAT_Escape(x))
      BY <2>2, <2>10, <2>11, TouchedFirst DEF PathsInv
    <3> QED
      BY <2>2, <3>1 DEF Touches
  <2> QED
    BY <2>7, <2>9, <2>11 DEF PathsInv, Kept
<1> QED
  BY <1>1, <1>2

\* The request goes on.
LEMMA StepKeeps ==
  ASSUME PathsInv, Step
  PROVE  PathsInv' /\ Kept
<1> DEFINE c == Head(todo)
<1>1. /\ todo \in Seq(CallSet) /\ todo # <<>> /\ Perform(todo) /\ asked' = asked /\ c \in CallSet
  BY DEF PathsInv, Shaped, Step
<1>2. Work(c) \/ Fat!Refuse
  BY <1>1 DEF Perform
<1>3. c.op # "probe" => todo' = Tail(todo)
  BY <1>1 DEF Perform
<1>4. CASE asked.op = "setmode" /\ NothingOpen /\ todo \in Seq(Preparing)
  <2>1. c \in Preparing /\ Tail(todo) \in Seq(Preparing) /\ Tail(todo) \in Seq(CallSet)
    BY <1>1, <1>4
  <2>2. c.op \in {"mkdir", "rmdir"}
    BY <2>1 DEF Preparing
  <2>3. Shaped' /\ Writers' /\ files' = files
    BY <1>1, <1>3, <1>4, <2>1, <2>2, Performed DEF Safe
  <2>4. Pending'
    BY <1>1, <1>3, <1>4, <2>1, <2>2, <2>3 DEF Pending, NothingOpen
  <2>5. ASSUME NEW x \in Path, Visible[x].kind = "file", Visible'[x] # Visible[x]
        PROVE  Named(x)
    <3>1. Touches(c, FAT_Escape(x))
      BY <1>1, <1>2, <2>2, <2>5, TouchedFirst DEF PathsInv
    <3>2. c.op = "rmdir" /\ IsPrefix(c.path, FAT_Escape(x))
      BY <2>2, <3>1 DEF Touches
    <3> QED
      BY <1>1, <1>4, <2>1, <3>2, PreparingNames
  <2> QED
    BY <2>3, <2>4, <2>5 DEF PathsInv, Kept
<1>5. CASE /\ asked.op = "rename" /\ IsRename(asked.path, asked.to)
           /\ todo \in Seq(Renaming(asked.path, asked.to))
  <2> DEFINE f == asked.path
             t == asked.to
  <2>1. f \in Path /\ t \in Path /\ f # t /\ Unused(f) /\ Unused(t)
    BY <1>5 DEF IsRename
  <2>2. c \in Renaming(f, t) /\ Tail(todo) \in Seq(Renaming(f, t)) /\ Tail(todo) \in Seq(CallSet)
    BY <1>1, <1>5
  <2>3. c.op \in {"rm", "rmdir", "mv"} /\ (c.op = "mv" => c.to \in VolPath)
    BY <2>1, <2>2, VolPathType DEF Renaming
  <2>4. Safe(c)
    BY <2>1, <2>2 DEF Safe
  <2>5. Shaped' /\ Writers' /\ files' = files
    BY <1>1, <1>3, <2>2, <2>3, <2>4, Performed
  <2>6. IsRename(f, t)' /\ asked'.path = f /\ asked'.to = t /\ asked'.op = "rename"
    BY <1>1, <1>5, <2>1, <2>5 DEF IsRename, Unused
  <2>7. Pending'
    BY <1>1, <1>3, <2>2, <2>3, <2>6 DEF Pending
  <2>8. ASSUME NEW x \in Path, Visible[x].kind = "file", Visible'[x] # Visible[x]
        PROVE  Named(x)
    <3>1. Touches(c, FAT_Escape(x))
      BY <1>1, <1>2, <2>3, <2>8, TouchedFirst DEF PathsInv
    <3> HIDE DEF f, t
    <3> QED
      BY <2>1, <2>2, <2>6, <3>1, RenamingNames
  <2> QED
    BY <2>5, <2>7, <2>8 DEF PathsInv, Kept
<1> QED
  BY <1>1, <1>4, <1>5 DEF PathsInv, Pending

\* A step that leaves the volume as it is.
LEMMA VolumeStays ==
  ASSUME emu' = emu
  PROVE  Kept
BY VisibleIs DEF Kept

\* The usage of a folder.
LEMMA GetUsageKeeps ==
  ASSUME PathsInv, NEW p \in Path, NEW onDisc, GetUsage(p, onDisc)
  PROVE  PathsInv' /\ Kept
<1>1. CASE Receive("look", p, <<>>, One("usage", p))
  BY <1>1, OneCallRequests
<1>2. CASE UNCHANGED <<emu, files, todo>> /\ todo = <<>>
  <2>1. PathsInv'
    BY <1>2 DEF PathsInv, Shaped, Writers, Pending
  <2> QED
    BY <1>2, <2>1, VolumeStays
<1> QED
  BY <1>1, <1>2 DEF GetUsage, Fat!Size, Fat!Refuse

\* The calls that prepare the folders.
LEMMA PrepareFoldersType == PrepareFolders \in Seq(Preparing)
<1> DEFINE Make(n) == IF <<n>> \notin Path THEN <<>>
                      ELSE (IF n = tmp THEN One("rmdir", <<n>>) ELSE <<>>) \o One("mkdir", <<n>>)
<1>1. ASSUME NEW n
      PROVE  Make(n) \in Seq(Preparing)
  <2>1. CASE <<n>> \notin Path
    BY <2>1
  <2>2. CASE <<n>> \in Path
    <3> DEFINE make  == CallOf("mkdir", FAT_Escape(<<n>>), <<>>)
               empty == CallOf("rmdir", FAT_Escape(<<n>>), <<>>)
    <3>1. make \in CallSet /\ empty \in CallSet
      BY <2>2, CallType
    <3>2. make.op = "mkdir" /\ empty.op = "rmdir" /\ empty.path = FAT_Escape(<<n>>)
      BY DEF CallOf
    <3>3. Make(n) = (IF n = tmp THEN <<empty>> ELSE <<>>) \o <<make>>
      BY <2>2 DEF One, Absolute
    <3> HIDE DEF make, empty
    <3>4. make \in Preparing /\ (n = tmp => empty \in Preparing)
      BY <2>2, <3>1, <3>2 DEF Preparing
    <3>5. (IF n = tmp THEN <<empty>> ELSE <<>>) \in Seq(Preparing) /\ <<make>> \in Seq(Preparing)
      BY <3>4
    <3> HIDE DEF Make
    <3> QED
      BY <3>3, <3>5
  <2> QED
    BY <2>1, <2>2
<1>2. PrepareFolders = Make(import) \o Make(sys) \o Make(ticket) \o Make(title) \o Make(tmp)
  BY DEF PrepareFolders
<1> HIDE DEF Make
<1> QED
  BY <1>1, <1>2

\* SETMODE.
LEMMA SetModeKeeps ==
  ASSUME PathsInv, NEW full, SetMode(full)
  PROVE  PathsInv' /\ Kept
<1>1. UNCHANGED <<emu, files>> /\ NothingOpen /\ asked'.op = "setmode"
  BY DEF SetMode, NothingOpen
<1>2. todo' = <<>> \/ todo' \in Seq(Preparing)
  BY PrepareFoldersType DEF SetMode
<1>3. todo' \in Seq(CallSet)
  <2>1. Preparing \subseteq CallSet
    BY DEF Preparing
  <2>2. \A s \in Seq(Preparing) : s \in Seq(CallSet)
    BY <2>1
  <2>3. <<>> \in Seq(CallSet)
    OBVIOUS
  <2> QED
    BY <1>2, <2>2, <2>3
<1>4. PathsInv'
  BY <1>1, <1>2, <1>3 DEF PathsInv, Shaped, Writers, Pending, NothingOpen
<1> QED
  BY <1>1, <1>4, VolumeStays

\* A file is opened.
LEMMA OpenKeeps ==
  ASSUME PathsInv, NEW h \in Fil, NEW p \in Path, NEW access, NEW isNMH2, Open(h, p, access, isNMH2)
  PROVE  PathsInv' /\ Kept
<1> DEFINE q == FAT_Escape(p)
<1>1. /\ Shaped /\ Writers /\ todo = <<>> /\ todo' = <<>> /\ asked'.op = "open" /\ asked'.path = p
      /\ ("W" \in access => Unused(p)) /\ q \in VolPath
  BY VolPathType DEF PathsInv, Open
<1>2. CASE Fat!Refuse
  <2>1. PathsInv'
    BY <1>1, <1>2 DEF PathsInv, Shaped, Writers, Pending, Fat!Refuse
  <2> QED
    BY <1>2, <2>1, VolumeStays DEF Fat!Refuse
<1>3. CASE Fat!Open(h, q, access, emu[q].data)
  <2>1. /\ files' = [files EXCEPT ![h] = [path |-> q, data |-> emu[q].data, pos |-> 0, mode |-> access]]
        /\ emu' = [emu EXCEPT ![q] = IF "W" \in access THEN Fat!Busy ELSE emu[q]]
    BY <1>3 DEF Fat!Open, Fat!Put
  <2>2. /\ files'[h].path = q /\ files'[h].mode = access
        /\ \A g \in Fil \ {h} : files'[g] = files[g]
        /\ \A r \in VolPath \ {q} : emu'[r] = emu[r]
        /\ emu'[q] = IF "W" \in access THEN Fat!Busy ELSE emu[q]
    BY <1>1, <2>1 DEF Shaped
  <2>3. ASSUME "W" \in access, NEW g \in Fil, "W" \in files[g].mode
        PROVE  files[g].path # q
    <3>1. files[g] # Fat!Closed
      BY <2>3 DEF Fat!Closed
    <3>2. IsPrefix(q, q)
      BY DEF IsPrefix
    <3> QED
      BY <1>1, <2>3, <3>1, <3>2 DEF Unused
  <2>4. Shaped'
    BY <1>1, <2>1 DEF Shaped
  <2>5. Writers'
    BY <1>1, <2>2, <2>3 DEF Writers
  <2>6. Kept
    <3> SUFFICES ASSUME NEW x \in Path, Visible'[x] # Visible[x]
                 PROVE  x = p
      BY <1>1 DEF Kept, Named
    <3>1. FAT_Escape(x) = q
      BY <2>2, VisibleIs, VolPathType
    <3> QED
      BY <3>1, PathType, EscapeDiffers
  <2> QED
    BY <1>1, <2>4, <2>5, <2>6 DEF PathsInv, Pending
<1> QED
  BY <1>2, <1>3 DEF Open

\* A file is read, written or closed.
LEMMA FileCallKeeps ==
  ASSUME PathsInv, NEW h \in Fil, NEW x, FileCall(h, x)
  PROVE  PathsInv' /\ Kept
<1>1. Shaped /\ Writers /\ todo = <<>> /\ todo' = <<>>
  BY DEF PathsInv, FileCall
<1>2. ASSUME emu' = emu, files' = [g \in Fil |-> files'[g]],
             \A g \in Fil : files'[g].path = files[g].path /\ files'[g].mode = files[g].mode
      PROVE  PathsInv' /\ Kept
  <2>1. PathsInv'
    BY <1>1, <1>2 DEF PathsInv, Shaped, Writers, Pending
  <2> QED
    BY <1>2, <2>1, VolumeStays
<1>3. ASSUME NEW n, Fat!Read(h, n)
      PROVE  PathsInv' /\ Kept
  <2>1. emu' = emu /\ \E pos : files' = [files EXCEPT ![h].pos = pos]
    BY <1>3 DEF Fat!Read
  <2>2. PICK pos : files' = [files EXCEPT ![h].pos = pos]
    BY <2>1
  <2> QED
    BY <1>1, <1>2, <2>1, <2>2 DEF Shaped
<1>4. ASSUME NEW k, Fat!Write(h, k, x)
      PROVE  PathsInv' /\ Kept
  <2>1. emu' = emu /\ \E pos, data : files' = [files EXCEPT ![h].pos = pos, ![h].data = data]
    BY <1>4 DEF Fat!Write
  <2>2. PICK pos, data : files' = [files EXCEPT ![h].pos = pos, ![h].data = data]
    BY <2>1
  <2> DEFINE moved == [files EXCEPT ![h].pos = pos]
  <2>3. /\ moved = [g \in Fil |-> moved[g]]
        /\ \A g \in Fil : moved[g].path = files[g].path /\ moved[g].mode = files[g].mode
    BY <1>1 DEF Shaped
  <2>4. files' = [moved EXCEPT ![h].data = data]
    BY <2>2
  <2> HIDE DEF moved
  <2>5. /\ files' = [g \in Fil |-> files'[g]]
        /\ \A g \in Fil : files'[g].path = moved[g].path /\ files'[g].mode = moved[g].mode
    BY <2>3, <2>4
  <2> QED
    BY <1>2, <2>1, <2>3, <2>5
<1>5. CASE Fat!Seek(h, 0)
  <2>1. emu' = emu /\ files' = [files EXCEPT ![h].pos = 0]
    BY <1>5 DEF Fat!Seek
  <2> QED
    BY <1>1, <1>2, <2>1 DEF Shaped
<1>6. CASE Fat!Refuse
  <2>1. emu' = emu /\ files' = files
    BY <1>6 DEF Fat!Refuse
  <2> QED
    BY <1>1, <1>2, <2>1 DEF Shaped
<1>7. CASE Fat!Close(h)
  <2>1. /\ files' = [files EXCEPT ![h] = Fat!Closed]
        /\ emu' = [emu EXCEPT ![files[h].path] = IF "W" \in files[h].mode THEN Fat!AFile(files[h].data)
                                                 ELSE emu[files[h].path]]
    BY <1>7 DEF Fat!Close, Fat!Put
  <2>2. /\ "W" \notin files'[h].mode
        /\ \A g \in Fil \ {h} : files'[g] = files[g]
        /\ \A r \in VolPath : emu'[r] # emu[r] => r = files[h].path /\ "W" \in files[h].mode
    BY <1>1, <2>1 DEF Shaped, Fat!Closed
  <2>3. Shaped'
    BY <1>1, <2>1 DEF Shaped
  <2>4. Writers'
    BY <1>1, <2>2 DEF Writers
  <2>5. Kept
    <3>1. Fat!Busy.kind = "busy"
      BY DEF Fat!Busy
    <3> QED
      BY <1>1, <2>2, <3>1, VisibleIs, VolPathType DEF Kept, Writers
  <2> QED
    BY <1>1, <2>3, <2>4, <2>5 DEF PathsInv, Pending
<1> QED
  BY <1>3, <1>4, <1>5, <1>6, <1>7 DEF FileCall

\* A loader makes a folder or a file.
LEMMA LoaderKeeps ==
  ASSUME PathsInv, NEW p \in Path, NEW x, LoaderCreates(p, x)
  PROVE  PathsInv' /\ Kept
<1> DEFINE q == FAT_Escape(p)
<1>1. /\ emu' = [emu EXCEPT ![q] = x] /\ emu[q] = Fat!Absent /\ q \in VolPath
      /\ UNCHANGED <<files, todo, asked>>
  BY VolPathType DEF LoaderCreates, Fat!Create, Fat!Put
<1>2. /\ \A r \in VolPath : emu'[r] # emu[r] => emu[r] = Fat!Absent
      /\ emu' = [r \in VolPath |-> emu'[r]]
  BY <1>1 DEF PathsInv, Shaped
<1>3. Fat!Busy # Fat!Absent /\ Fat!Absent.kind # "file"
  BY DEF Fat!Busy, Fat!Absent
<1>4. Writers'
  BY <1>1, <1>2, <1>3 DEF PathsInv, Writers
<1>5. Shaped' /\ Pending'
  BY <1>1, <1>2 DEF PathsInv, Shaped, Pending, NothingOpen, IsRename, Unused
<1>6. Kept
  BY <1>2, <1>3, VisibleIs, VolPathType DEF Kept
<1> QED
  BY <1>4, <1>5, <1>6 DEF PathsInv

\* The power fails.
LEMMA PowerCutKeeps ==
  ASSUME PathsInv, PowerCut
  PROVE  PathsInv' /\ Kept
<1> DEFINE c == Head(todo)
<1>1. /\ todo' = <<>> /\ files' = [h \in Fil |-> Fat!Closed] /\ asked' = asked
      /\ emu' = [q \in VolPath |-> emu'[q]]
      /\ \A q \in VolPath : emu'[q] # emu[q] =>
           emu[q] = Fat!Busy \/ (todo # <<>> /\ c.op = "rmdir" /\ q \in Under(c.path))
  BY DEF PowerCut
<1>2. PathsInv'
  BY <1>1 DEF PathsInv, Shaped, Writers, Pending, Fat!Closed
<1>3. ASSUME NEW x \in Path, Visible[x].kind = "file", Visible'[x] # Visible[x]
      PROVE  Named(x)
  <2>1. emu[FAT_Escape(x)] # Fat!Busy
    BY <1>3, VisibleIs DEF Fat!Busy
  <2>2. todo # <<>> /\ c.op = "rmdir" /\ IsPrefix(c.path, FAT_Escape(x))
    BY <1>1, <1>3, <2>1, VisibleIs, VolPathType DEF Under
  <2>3. CASE asked.op = "setmode" /\ todo \in Seq(Preparing)
    <3>1. c \in Preparing
      BY <2>2, <2>3
    <3> QED
      BY <1>1, <2>2, <2>3, <3>1, PreparingNames
  <2>4. CASE /\ asked.op = "rename" /\ IsRename(asked.path, asked.to)
             /\ todo \in Seq(Renaming(asked.path, asked.to))
    <3> DEFINE f == asked.path
               t == asked.to
    <3>1. c \in Renaming(f, t)
      BY <2>2, <2>4
    <3>2. f \in Path /\ t \in Path /\ f # t /\ asked'.op = "rename" /\ asked'.path = f /\ asked'.to = t
      BY <1>1, <2>4 DEF IsRename
    <3> HIDE DEF c, f, t
    <3> QED
      BY <2>2, <3>1, <3>2, RenamingNames
  <2> QED
    BY <2>2, <2>3, <2>4 DEF PathsInv, Pending
<1> QED
  BY <1>2, <1>3 DEF Kept

-----------------------------------------------------------------------------
(* The theorem *)

\* Every step keeps the invariant, and the content of what is not named.
LEMMA PathsStep ==
  ASSUME PathsInv, PathsNext
  PROVE  PathsInv' /\ Kept
<1>1. ASSUME Request
      PROVE  PathsInv' /\ Kept
  BY <1>1, OneCallRequests, RenameKeeps, GetUsageKeeps, OpenKeeps, FileCallKeeps, SetModeKeeps
  DEF Request
<1> QED
  BY <1>1, StepKeeps, LoaderKeeps, PowerCutKeeps DEF PathsNext

\* At first nothing is on the volume.
LEMMA PathsInitially == PathsInit => PathsInv
<1> SUFFICES ASSUME PathsInit
             PROVE  PathsInv
  OBVIOUS
<1>1. /\ emu = [q \in VolPath |-> Fat!Absent] /\ files = [h \in Fil |-> Fat!Closed] /\ todo = <<>>
  BY DEF PathsInit, Fat!Init
<1>2. \A h \in Fil : files[h].mode = {}
  BY <1>1 DEF Fat!Closed
<1> QED
  BY <1>1, <1>2 DEF PathsInv, Shaped, Writers, Pending

\* What a file holds changes or vanishes only by a request that names it, or a
\* folder that it is in: a title loses nothing to the steps of a rename, of a SETMODE
\* or of a loader, nor to the power; what is moved is found at the new place.
THEOREM ContentAlwaysKept == PathsSpec => ContentKept
<1>1. PathsInv /\ [PathsNext]_vars => PathsInv'
  <2> SUFFICES ASSUME PathsInv, UNCHANGED vars
               PROVE  PathsInv'
    BY PathsStep
  <2> QED
    BY DEF vars, PathsInv, Shaped, Writers, Pending, NothingOpen, IsRename, Unused
<1>2. PathsInv /\ [PathsNext]_vars => [Kept]_vars
  BY PathsStep
<1> QED
  BY <1>1, <1>2, PathsInitially, PTL DEF PathsSpec, ContentKept, Kept, Named

-----------------------------------------------------------------------------
(* Finite sets and sums over them *)

\* Among subsets of a finite set there is one that no other is below.
LEMMA SmallestOf ==
  ASSUME NEW S, IsFiniteSet(S), NEW B \in SUBSET (SUBSET S), B # {}
  PROVE  \E t \in B : \A u \in B : u \subseteq t => u = t
<1>1. IsWellFoundedOn(StrictSubsetOrdering(S), FiniteSubsetsOf(S))
  BY FS_StrictSubsetOrderingWellFounded
<1>2. B \subseteq FiniteSubsetsOf(S)
  BY FS_Subset DEF FiniteSubsetsOf
<1>3. PICK t \in B : \A u \in B : ~(<<u, t>> \in StrictSubsetOrdering(S))
  BY <1>1, <1>2, WFMin
<1> QED
  BY <1>3 DEF StrictSubsetOrdering

\* The sum of w over each subset of S, one element after another, as MapThenSumSet
\* takes it.
Some(s) == CHOOSE x \in s : TRUE
Adds(w, S, g) ==
  g = [s \in SUBSET S |-> IF s = {} THEN 0 ELSE w[Some(s)] + g[s \ {Some(s)}]]

\* There is one.
LEMMA SumExists ==
  ASSUME NEW S, IsFiniteSet(S), NEW w \in [S -> Nat]
  PROVE  \E g : Adds(w, S, g)
<1> DEFINE Next1(g, s) == IF s = {} THEN 0 ELSE w[Some(s)] + g[s \ {Some(s)}]
           Good(g, n)  == \A s \in SUBSET S : Cardinality(s) <= n => g[s] = Next1(g, s)
           B == {t \in SUBSET S : ~ \E g \in [SUBSET S -> Nat] : Good(g, Cardinality(t))}
<1>1. ASSUME NEW s \in SUBSET S
      PROVE  /\ IsFiniteSet(s) /\ Cardinality(s) \in Nat /\ (Cardinality(s) = 0 <=> s = {})
             /\ Cardinality(s) <= Cardinality(S)
             /\ s # {} => Some(s) \in s
             /\ \A x \in s : s \ {x} \in SUBSET S /\ Cardinality(s \ {x}) = Cardinality(s) - 1
  <2>1. IsFiniteSet(s) /\ Cardinality(s) <= Cardinality(S)
    BY FS_Subset
  <2>2. Cardinality(s) \in Nat /\ (Cardinality(s) = 0 <=> s = {})
    BY <2>1, FS_CardinalityType, FS_EmptySet
  <2>3. s # {} => Some(s) \in s
    BY DEF Some
  <2>4. \A x \in s : s \ {x} \in SUBSET S /\ Cardinality(s \ {x}) = Cardinality(s) - 1
    BY <2>1, FS_RemoveElement
  <2> QED
    BY <2>1, <2>2, <2>3, <2>4
<1>2. ASSUME NEW g \in [SUBSET S -> Nat], NEW s \in SUBSET S
      PROVE  Next1(g, s) \in Nat
  BY <1>1
<1>3. \E g \in [SUBSET S -> Nat] : Good(g, 0)
  <2> DEFINE g == [s \in SUBSET S |-> 0]
  <2>1. g \in [SUBSET S -> Nat]
    OBVIOUS
  <2>2. Good(g, 0)
    BY <1>1
  <2> QED
    BY <2>1, <2>2
<1>4. ASSUME NEW n \in Nat, NEW g \in [SUBSET S -> Nat], Good(g, n)
      PROVE  \E h \in [SUBSET S -> Nat] : Good(h, n + 1)
  <2> DEFINE h == [s \in SUBSET S |-> Next1(g, s)]
  <2>1. h \in [SUBSET S -> Nat]
    <3> HIDE DEF Next1
    <3> QED
      BY <1>2
  <2>2. \A s \in SUBSET S : h[s] = Next1(g, s)
    OBVIOUS
  <2> HIDE DEF h
  <2>3. \A s \in SUBSET S : Cardinality(s) <= n => h[s] = g[s]
    <3> HIDE DEF Next1
    <3> QED
      BY <1>4, <2>2
  <2>4. ASSUME NEW s \in SUBSET S, Cardinality(s) <= n + 1
        PROVE  h[s] = Next1(h, s)
    <3>1. CASE s = {}
      BY <2>2, <3>1
    <3>2. CASE s # {}
      <4>1. s \ {Some(s)} \in SUBSET S /\ Cardinality(s \ {Some(s)}) <= n
        BY <1>1, <2>4, <3>2
      <4>2. h[s \ {Some(s)}] = g[s \ {Some(s)}]
        BY <2>3, <4>1
      <4> QED
        BY <2>2, <3>2, <4>2
    <3> QED
      BY <3>1, <3>2
  <2> QED
    BY <2>1, <2>4
<1>5. B = {}
  <2> SUFFICES ASSUME B # {}
               PROVE  FALSE
    OBVIOUS
  <2>1. PICK t \in B : \A u \in B : u \subseteq t => u = t
    <3>1. B \in SUBSET (SUBSET S)
      OBVIOUS
    <3> HIDE DEF B
    <3> QED
      BY <3>1, SmallestOf
  <2>2. t \in SUBSET S /\ ~ \E g \in [SUBSET S -> Nat] : Good(g, Cardinality(t))
    OBVIOUS
  <2> HIDE DEF Good
  <2>3. t # {}
    <3>1. Cardinality({}) = 0
      BY FS_EmptySet
    <3> QED
      BY <1>3, <2>2, <3>1
  <2>4. PICK x \in t : TRUE
    BY <2>3
  <2>5. t \ {x} \in SUBSET S /\ t \ {x} \notin B /\ Cardinality(t \ {x}) = Cardinality(t) - 1
    <3>1. t \ {x} \in SUBSET S /\ Cardinality(t \ {x}) = Cardinality(t) - 1
      BY <1>1, <2>2
    <3>2. t \ {x} \subseteq t /\ t \ {x} # t
      OBVIOUS
    <3> HIDE DEF B
    <3> QED
      BY <2>1, <3>1, <3>2
  <2>6. PICK g \in [SUBSET S -> Nat] : Good(g, Cardinality(t) - 1)
    BY <2>5
  <2>7. Cardinality(t) - 1 \in Nat /\ (Cardinality(t) - 1) + 1 = Cardinality(t)
    BY <1>1, <2>2, <2>5
  <2> QED
    BY <1>4, <2>2, <2>6, <2>7
<1>6. PICK g \in [SUBSET S -> Nat] : Good(g, Cardinality(S))
  <2> HIDE DEF Good
  <2> QED
    BY <1>5
<1>7. \A s \in SUBSET S : g[s] = Next1(g, s)
  BY <1>1, <1>6
<1> QED
  BY <1>7 DEF Adds

\* Which element is added first makes no difference.
LEMMA SumIs ==
  ASSUME NEW S, IsFiniteSet(S), NEW w \in [S -> Nat], NEW g, Adds(w, S, g)
  PROVE  /\ g[{}] = 0
         /\ \A s \in SUBSET S : g[s] \in Nat /\ \A y \in s : g[s] = w[y] + g[s \ {y}]
<1> DEFINE Fine(s) == g[s] \in Nat /\ \A y \in s : g[s] = w[y] + g[s \ {y}]
           B == {s \in SUBSET S : ~Fine(s)}
<1>1. g[{}] = 0 /\ \A s \in SUBSET S : s # {} => g[s] = w[Some(s)] + g[s \ {Some(s)}]
  BY DEF Adds
<1>2. ASSUME B # {}
      PROVE  FALSE
  <2>1. PICK s \in B : \A u \in B : u \subseteq s => u = s
    <3>1. B \in SUBSET (SUBSET S)
      OBVIOUS
    <3> HIDE DEF B
    <3> QED
      BY <1>2, <3>1, SmallestOf
  <2>2. s \in SUBSET S /\ ~Fine(s)
    OBVIOUS
  <2>3. \A x \in s : s \ {x} \in SUBSET S /\ Fine(s \ {x})
    <3> HIDE DEF Fine
    <3> QED
      BY <2>1, <2>2
  <2>4. s # {}
    <3>1. g[{}] \in Nat /\ ~ \E y \in {} : TRUE
      BY <1>1
    <3> QED
      BY <2>2, <3>1
  <2> DEFINE x == Some(s)
  <2>5. x \in s /\ g[s] = w[x] + g[s \ {x}]
    BY <1>1, <2>2, <2>4 DEF Some
  <2> HIDE DEF x
  <2>6. g[s] \in Nat
    <3>1. w[x] \in Nat /\ g[s \ {x}] \in Nat
      BY <2>2, <2>3, <2>5
    <3> QED
      BY <2>5, <3>1
  <2>7. ASSUME NEW y \in s, y # x
        PROVE  g[s] = w[y] + g[s \ {y}]
    <3>1. g[s \ {x}] = w[y] + g[(s \ {x}) \ {y}] /\ g[s \ {y}] = w[x] + g[(s \ {y}) \ {x}]
      BY <2>3, <2>5, <2>7
    <3>2. (s \ {x}) \ {y} = (s \ {y}) \ {x}
      OBVIOUS
    <3> DEFINE rest == (s \ {y}) \ {x}
    <3>3. (s \ {y}) \in SUBSET S /\ rest \in SUBSET S
      BY <2>2
    <3>4. g[s \ {x}] \in Nat /\ g[s \ {y}] \in Nat /\ w[x] \in Nat /\ w[y] \in Nat
      BY <2>2, <2>3, <2>5
    <3>5. g[rest] \in Nat
      <4>1. rest # s /\ rest \subseteq s
        BY <2>5
      <4>2. Fine(rest)
        <5> HIDE DEF Fine, rest
        <5> QED
          BY <2>1, <3>3, <4>1
      <4> QED
        BY <4>2
    <3> HIDE DEF rest
    <3>6. g[s \ {x}] = w[y] + g[rest] /\ g[s \ {y}] = w[x] + g[rest]
      BY <3>1, <3>2 DEF rest
    <3> QED
      BY <2>5, <3>4, <3>5, <3>6
  <2> QED
    BY <2>2, <2>5, <2>6, <2>7
<1> QED
  BY <1>1, <1>2

\* A sum is that over the images, when each element has one of its own and of its weight.
LEMMA SumAcross ==
  ASSUME NEW T, IsFiniteSet(T), NEW e, NEW v \in [T -> Nat], NEW w,
         w \in [{e[x] : x \in T} -> Nat],
         \A x \in T : v[x] = w[e[x]],
         \A x, y \in T : e[x] = e[y] => x = y,
         NEW a, NEW b, Adds(v, T, a), Adds(w, {e[x] : x \in T}, b)
  PROVE  a[T] = b[{e[x] : x \in T}]
<1> DEFINE Im(t) == {e[x] : x \in t}
           B == {t \in SUBSET T : a[t] # b[Im(t)]}
<1>1. IsFiniteSet(Im(T))
  <2> DEFINE f == [x \in T |-> e[x]]
  <2>1. f \in Surjection(T, Im(T))
    BY DEF Surjection
  <2> HIDE DEF f
  <2> QED
    BY <2>1, FS_Surjection
<1>2. a[{}] = 0 /\ \A t \in SUBSET T : a[t] \in Nat /\ \A y \in t : a[t] = v[y] + a[t \ {y}]
  BY SumIs
<1>3. b[{}] = 0 /\ \A s \in SUBSET Im(T) : b[s] \in Nat /\ \A y \in s : b[s] = w[y] + b[s \ {y}]
  <2> DEFINE S == Im(T)
  <2>1. IsFiniteSet(S) /\ w \in [S -> Nat] /\ Adds(w, S, b)
    BY <1>1
  <2> HIDE DEF Im, S
  <2>2. b[{}] = 0 /\ \A s \in SUBSET S : b[s] \in Nat /\ \A y \in s : b[s] = w[y] + b[s \ {y}]
    BY ONLY <2>1, SumIs
  <2> QED
    BY <2>2 DEF S
<1>4. ASSUME B # {}
      PROVE  FALSE
  <2>1. PICK t \in B : \A u \in B : u \subseteq t => u = t
    <3>1. B \in SUBSET (SUBSET T)
      OBVIOUS
    <3> HIDE DEF B
    <3> QED
      BY <1>4, <3>1, SmallestOf
  <2>2. t \in SUBSET T /\ a[t] # b[Im(t)]
    OBVIOUS
  <2>3. Im({}) = {}
    OBVIOUS
  <2>4. PICK y \in t : TRUE
    BY <1>2, <1>3, <2>2, <2>3
  <2>5. t \ {y} \in SUBSET T /\ a[t \ {y}] = b[Im(t \ {y})]
    <3> HIDE DEF Im
    <3> QED
      BY <2>1, <2>2, <2>4
  <2>6. Im(t \ {y}) = Im(t) \ {e[y]} /\ e[y] \in Im(t) /\ Im(t) \in SUBSET Im(T)
    BY <2>2, <2>4
  <2>7. v[y] = w[e[y]]
    BY <2>2, <2>4
  <2> HIDE DEF Im
  <2>8. a[t] = v[y] + a[t \ {y}] /\ b[Im(t)] = w[e[y]] + b[Im(t) \ {e[y]}]
    BY <1>2, <1>3, <2>2, <2>4, <2>6
  <2> QED
    BY <2>2, <2>5, <2>6, <2>7, <2>8
<1>5. T \in SUBSET T /\ T \notin B
  <2> HIDE DEF B
  <2> QED
    BY <1>4
<1> QED
  BY <1>5

-----------------------------------------------------------------------------
(* The names of a title and those of the volume *)

\* The folder of a path, and a path of the volume as a title has it.
Up(p) == SubSeq(p, 1, Len(p) - 1)
Title(r) == [i \in DOMAIN r |-> FAT_Unescape(r[i])]

\* A name that is escaped is found again.
LEMMA NameBack ==
  ASSUME NEW m \in Plain
  PROVE  FAT_Unescape(IF m \in DOMAIN Escaped THEN Escaped[m] ELSE m) = m
<1>1. CASE m \in DOMAIN Escaped
  <2> DEFINE n == Escaped[m]
  <2>1. n \in Range(Escaped) /\ m \in {k \in DOMAIN Escaped : Escaped[k] = n}
    BY <1>1 DEF Range
  <2>2. \A k \in DOMAIN Escaped : Escaped[k] = n => k = m
    BY <1>1, PathsAssumption
  <2>3. (CHOOSE k \in DOMAIN Escaped : Escaped[k] = n) = m
    BY <2>1, <2>2
  <2> HIDE DEF n
  <2>4. FAT_Unescape(n) = m
    BY <2>1, <2>3 DEF FAT_Unescape
  <2> QED
    BY <1>1, <2>4 DEF n
<1>2. CASE m \notin DOMAIN Escaped
  BY <1>2 DEF FAT_Unescape, Plain
<1> QED
  BY <1>1, <1>2

\* So is a path, and its last name.
LEMMA TitleOf ==
  ASSUME NEW p \in Path
  PROVE  /\ Title(FAT_Escape(p)) = p
         /\ FAT_Unescape(Last(FAT_Escape(p))) = Last(p)
<1> DEFINE e == FAT_Escape(p)
<1>1. p \in Seq(Plain) /\ Len(p) \in Nat \ {0}
  BY PathType
<1>2. /\ e \in Seq(Raw) /\ Len(e) = Len(p)
      /\ \A i \in 1 .. Len(p) : e[i] = IF p[i] \in DOMAIN Escaped THEN Escaped[p[i]] ELSE p[i]
  BY <1>1, EscapeType
<1>3. \A i \in 1 .. Len(p) : FAT_Unescape(e[i]) = p[i]
  BY <1>1, <1>2, NameBack
<1> HIDE DEF e
<1>4. Title(e) = p
  <2>1. DOMAIN e = 1 .. Len(p)
    BY <1>2
  <2>2. p = [i \in 1 .. Len(p) |-> p[i]]
    BY <1>1
  <2>3. Title(e) = [i \in 1 .. Len(p) |-> p[i]]
    BY <1>3, <2>1 DEF Title
  <2> QED
    BY <2>2, <2>3
<1>5. FAT_Unescape(Last(e)) = Last(p)
  BY <1>1, <1>2, <1>3 DEF Last
<1> QED
  BY <1>4, <1>5 DEF e

\* Two paths are one on the volume when they are one for the title.
LEMMA OneName ==
  /\ \A p, q \in Path : FAT_Escape(p) = FAT_Escape(q) => p = q
  /\ \A p \in Path, q \in Seq(Plain) : FAT_Escape(p) = FAT_Escape(q) => p = q
  /\ \A r \in VolPath : \E p \in Path : r = FAT_Escape(p) /\ Title(r) = p
BY PathType, EscapeDiffers, VolPathType, TitleOf

\* The folder of a path is one too, or the root.
LEMMA UpEscaped ==
  ASSUME NEW p \in Path
  PROVE  /\ Up(p) = <<>> \/ Up(p) \in Path
         /\ Up(p) \in Seq(Plain) /\ Last(p) \in Plain
         /\ p = Append(Up(p), Last(p))
         /\ Up(FAT_Escape(p)) = FAT_Escape(Up(p))
         /\ FAT_Escape(Up(p)) = <<>> <=> Up(p) = <<>>
<1> DEFINE e == FAT_Escape(p)
           u == Up(p)
<1>1. p \in Seq(Plain) /\ Len(p) \in Nat /\ Len(p) >= 1
  BY PathType
<1>2. /\ e \in Seq(Raw) /\ Len(e) = Len(p)
      /\ \A i \in 1 .. Len(p) : e[i] = IF p[i] \in DOMAIN Escaped THEN Escaped[p[i]] ELSE p[i]
  BY <1>1, EscapeType
<1>3. u \in Seq(Plain) /\ Len(u) = Len(p) - 1 /\ \A i \in 1 .. Len(p) - 1 : u[i] = p[i]
  <2>1. SubSeq(p, 1, Len(p) - 1) \in Seq(Plain) /\ Len(SubSeq(p, 1, Len(p) - 1)) = Len(p) - 1
        /\ \A i \in 1 .. Len(p) - 1 : SubSeq(p, 1, Len(p) - 1)[i] = p[i]
    <3> DEFINE n == Len(p) - 1
    <3>1. n \in Nat /\ n <= Len(p) /\ p \in Seq(Plain) /\ Len(p) \in Nat
      BY <1>1
    <3> HIDE DEF n
    <3>2. SubSeq(p, 1, n) \in Seq(Plain) /\ Len(SubSeq(p, 1, n)) = n
          /\ \A i \in 1 .. n : SubSeq(p, 1, n)[i] = p[i]
      BY <3>1
    <3> QED
      BY <3>2 DEF n
  <2> QED
    BY <2>1 DEF Up
<1>4. u = <<>> \/ u \in Path
  <2>1. CASE Len(p) = 1
    BY <1>3, <2>1
  <2>2. CASE Len(p) > 1
    BY <2>2, PathsAssumption DEF Up
  <2>3. Len(p) = 1 \/ Len(p) > 1
    <3> DEFINE n == Len(p)
    <3>1. n \in Nat /\ n >= 1
      BY <1>1
    <3> HIDE DEF n
    <3>2. n = 1 \/ n > 1
      BY ONLY <3>1
    <3> QED
      BY <3>2 DEF n
  <2> HIDE DEF u
  <2> QED
    BY <2>1, <2>2, <2>3
<1>5. Last(p) \in Plain /\ p = Append(u, Last(p))
  <2>1. Last(p) \in Plain
    BY <1>1 DEF Last
  <2> DEFINE a == Append(u, Last(p))
  <2> HIDE DEF u
  <2>2. a \in Seq(Plain) /\ Len(a) = Len(p) /\ a[Len(p)] = Last(p)
        /\ \A i \in 1 .. Len(p) - 1 : a[i] = p[i]
    BY <1>1, <1>3, <2>1
  <2>3. Last(p) = p[Len(p)]
    BY DEF Last
  <2> HIDE DEF a
  <2>4. \A i \in 1 .. Len(p) : a[i] = p[i]
    BY <1>1, <2>2, <2>3
  <2>5. a = p
    BY <1>1, <2>2, <2>4, SeqEqual
  <2> QED
    BY <2>1, <2>5 DEF a
<1> HIDE DEF u
<1>6. /\ FAT_Escape(u) \in Seq(Raw) /\ Len(FAT_Escape(u)) = Len(p) - 1
      /\ \A i \in 1 .. Len(p) - 1 : FAT_Escape(u)[i] = e[i]
  <2>1. /\ FAT_Escape(u) \in Seq(Raw) /\ Len(FAT_Escape(u)) = Len(u)
        /\ \A i \in 1 .. Len(u) :
             FAT_Escape(u)[i] = IF u[i] \in DOMAIN Escaped THEN Escaped[u[i]] ELSE u[i]
    BY <1>3, EscapeType
  <2> QED
    BY SMTT(30), <1>1, <1>2, <1>3, <2>1
<1>7. Up(e) = FAT_Escape(u)
  <2> HIDE DEF e
  <2>1. Up(e) \in Seq(Raw) /\ Len(Up(e)) = Len(p) - 1 /\ \A i \in 1 .. Len(p) - 1 : Up(e)[i] = e[i]
    BY <1>1, <1>2 DEF Up
  <2> QED
    BY <1>6, <2>1, SeqEqual
<1>8. FAT_Escape(u) = <<>> <=> u = <<>>
  BY <1>1, <1>3, <1>6
<1> QED
  BY <1>3, <1>4, <1>5, <1>7, <1>8 DEF u, e

-----------------------------------------------------------------------------
(* What a title sees of a call *)

\* What a path is, and whether the folder it is in is there.
LEMMA SeenDir ==
  ASSUME NEW p \in Path
  PROVE  /\ Visible[p] = emu[FAT_Escape(p)]
         /\ Nand!IsDir(p) <=> Fat!IsDir(FAT_Escape(p))
         /\ Nand!IsDir(Nand!Parent(p)) <=> Fat!IsDir(Fat!Parent(FAT_Escape(p)))
<1>1. ASSUME NEW q, q = <<>> \/ q \in Path, FAT_Escape(q) = <<>> <=> q = <<>>
      PROVE  Nand!IsDir(q) <=> Fat!IsDir(FAT_Escape(q))
  BY <1>1, VisibleIs DEF Nand!IsDir, Fat!IsDir
<1>2. /\ Up(p) = <<>> \/ Up(p) \in Path
      /\ Up(FAT_Escape(p)) = FAT_Escape(Up(p))
      /\ FAT_Escape(Up(p)) = <<>> <=> Up(p) = <<>>
  BY UpEscaped
<1>3. FAT_Escape(p) # <<>> /\ p # <<>>
  BY PathType, EscapeType
<1>4. Nand!Parent(p) = Up(p) /\ Fat!Parent(FAT_Escape(p)) = Up(FAT_Escape(p))
  BY DEF Nand!Parent, Fat!Parent, Up
<1> QED
  BY <1>1, <1>2, <1>3, <1>4, VisibleIs

\* What is in a folder.
LEMMA SeenChildren ==
  ASSUME NEW p \in Path
  PROVE  /\ Fat!Children(FAT_Escape(p)) = {FAT_Escape(x) : x \in Nand!Children(p)}
         /\ \A x \in Nand!Children(p) : x \in Path /\ p = Up(x)
<1>1. ASSUME NEW x \in Path
      PROVE  /\ Fat!Parent(FAT_Escape(x)) = FAT_Escape(p) <=> Nand!Parent(x) = p
             /\ Nand!Parent(x) = Up(x)
  <2>1. /\ Up(x) = <<>> \/ Up(x) \in Path
        /\ Up(FAT_Escape(x)) = FAT_Escape(Up(x))
        /\ FAT_Escape(Up(x)) = <<>> <=> Up(x) = <<>>
    BY UpEscaped
  <2>2. Nand!Parent(x) = Up(x) /\ Fat!Parent(FAT_Escape(x)) = Up(FAT_Escape(x))
    BY DEF Nand!Parent, Fat!Parent, Up
  <2>3. FAT_Escape(p) # <<>> /\ p # <<>>
    BY PathType, EscapeType
  <2> QED
    BY <2>1, <2>2, <2>3, OneName
<1>2. Nand!Children(p) = {x \in Path : Nand!Parent(x) = p /\ emu[FAT_Escape(x)].kind # "absent"}
  BY VisibleIs DEF Nand!Children
<1>3. Fat!Children(FAT_Escape(p))
        = {q \in VolPath : Fat!Parent(q) = FAT_Escape(p) /\ emu[q].kind # "absent"}
  BY DEF Fat!Children
<1>4. VolPath = {FAT_Escape(x) : x \in Path}
  BY DEF VolPath
<1> QED
  BY <1>1, <1>2, <1>3, <1>4

\* What is at or below a path.
LEMMA SeenBelow ==
  ASSUME NEW p \in Path, NEW x \in Path
  PROVE  /\ Fat!IsPrefix(FAT_Escape(p), FAT_Escape(x)) <=> Nand!IsPrefix(p, x)
         /\ Nand!IsPrefix(p, x) <=> IsPrefix(p, x)
         /\ IsPrefix(FAT_Escape(p), FAT_Escape(x)) <=> IsPrefix(p, x)
         /\ FAT_Escape(p) = FAT_Escape(x) <=> p = x
<1>1. IsPrefix(FAT_Escape(p), FAT_Escape(x)) <=> IsPrefix(p, x)
  BY PathType, PrefixEscaped
<1>2. Nand!IsPrefix(p, x) <=> IsPrefix(p, x)
  BY DEF Nand!IsPrefix, IsPrefix
<1>3. Fat!IsPrefix(FAT_Escape(p), FAT_Escape(x)) <=> IsPrefix(FAT_Escape(p), FAT_Escape(x))
  BY DEF Fat!IsPrefix, IsPrefix
<1> QED
  BY <1>1, <1>2, <1>3, OneName

\* A change of one path of the volume is a change of one path for the title.
LEMMA SeenPut ==
  ASSUME Shaped, NEW p \in Path, NEW x, emu' = [emu EXCEPT ![FAT_Escape(p)] = x]
  PROVE  Nand!Put(p, x)
<1>1. \A q \in Path : emu'[FAT_Escape(q)] = IF q = p THEN x ELSE emu[FAT_Escape(q)]
  BY VolPathType, OneName DEF Shaped
<1>2. Visible' = [q \in Path |-> emu'[FAT_Escape(q)]]
  BY DEF Visible
<1>3. Visible = [q \in Path |-> emu[FAT_Escape(q)]]
  BY DEF Visible
<1>4. Visible' = [Visible EXCEPT ![p] = x]
  BY <1>1, <1>2, <1>3
<1> QED
  BY <1>4 DEF Nand!Put

\* The open files, and a change of one.
LEMMA SeenFiles ==
  /\ VisibleFiles = [h \in Fil |-> [files[h] EXCEPT !.path = Title(@)]]
  /\ VisibleFiles' = [h \in Fil |-> [files'[h] EXCEPT !.path = Title(@)]]
  /\ files' = files => VisibleFiles' = VisibleFiles
  /\ emu' = emu => Visible' = Visible
BY DEF VisibleFiles, Visible, Title

\* The objects and the handles that both speak of.
LEMMA SameObjects ==
  /\ Nand!Absent = Fat!Absent /\ Nand!Directory = Fat!Directory /\ Nand!Busy = Fat!Busy
  /\ Nand!Closed = Fat!Closed /\ \A d : Nand!AFile(d) = Fat!AFile(d)
BY DEF Nand!Absent, Fat!Absent, Nand!Directory, Fat!Directory, Nand!Busy, Fat!Busy,
       Nand!Closed, Fat!Closed, Nand!AFile, Fat!AFile

\* Nothing is done.
LEMMA RefuseSeen ==
  ASSUME Fat!Refuse
  PROVE  Nand!Refuse
BY SeenFiles DEF Fat!Refuse, Nand!Refuse

\* A folder or a file is made.
LEMMA CreateSeen ==
  ASSUME Shaped, NEW p \in Path, NEW x, Fat!Create(FAT_Escape(p), x)
  PROVE  Nand!Create(p, x)
<1>1. /\ emu[FAT_Escape(p)] = Fat!Absent /\ Fat!IsDir(Fat!Parent(FAT_Escape(p)))
      /\ emu' = [emu EXCEPT ![FAT_Escape(p)] = x] /\ out' = <<>> /\ files' = files
  BY DEF Fat!Create, Fat!Put
<1> QED
  BY <1>1, SeenDir, SeenPut, SeenFiles, SameObjects DEF Nand!Create

\* An object is deleted.
LEMMA DeleteSeen ==
  ASSUME Shaped, NEW p \in Path, Fat!Delete(FAT_Escape(p))
  PROVE  Nand!Delete(p)
<1>1. /\ emu[FAT_Escape(p)].kind \in {"file", "dir"} /\ Fat!Children(FAT_Escape(p)) = {}
      /\ emu' = [emu EXCEPT ![FAT_Escape(p)] = Fat!Absent] /\ out' = <<>> /\ files' = files
  BY DEF Fat!Delete, Fat!Put
<1>2. Nand!Children(p) = {}
  BY <1>1, SeenChildren
<1>3. Nand!Put(p, Nand!Absent)
  BY <1>1, SeenPut, SameObjects
<1> QED
  BY <1>1, <1>2, <1>3, SeenDir, SeenFiles DEF Nand!Delete

\* What is below a folder is deleted.
LEMMA DeleteDirSeen ==
  ASSUME Shaped, NEW p \in Path, Fat!DeleteDir(FAT_Escape(p))
  PROVE  Nand!DeleteDir(p)
<1> DEFINE e == FAT_Escape(p)
<1>1. /\ emu[e].kind = "dir" /\ out' = <<>> /\ files' = files
      /\ emu' = [q \in VolPath |-> IF q # e /\ Fat!IsPrefix(e, q) THEN Fat!Absent ELSE emu[q]]
  BY DEF Fat!DeleteDir
<1>2. \A x \in Path : emu'[FAT_Escape(x)] =
        IF FAT_Escape(x) # e /\ Fat!IsPrefix(e, FAT_Escape(x)) THEN Fat!Absent ELSE emu[FAT_Escape(x)]
  <2> HIDE DEF e
  <2> QED
    BY <1>1, VolPathType
<1>3. \A x \in Path : emu'[FAT_Escape(x)] =
        IF x # p /\ Nand!IsPrefix(p, x) THEN Nand!Absent ELSE emu[FAT_Escape(x)]
  BY <1>2, SeenBelow, SameObjects
<1>4. Visible' = [x \in Path |-> emu'[FAT_Escape(x)]]
  BY DEF Visible
<1>5. Visible' = [x \in Path |-> IF x # p /\ Nand!IsPrefix(p, x) THEN Nand!Absent ELSE Visible[x]]
  BY <1>3, <1>4, VisibleIs
<1> QED
  BY <1>1, <1>5, SeenDir, SeenFiles DEF Nand!DeleteDir

\* What is moved is moved for the title, too.
LEMMA RenameSeen ==
  ASSUME Shaped, NEW p \in Path, NEW q \in Path, Fat!Rename(FAT_Escape(p), FAT_Escape(q))
  PROVE  Nand!Rename(p, q)
<1> DEFINE ep == FAT_Escape(p)
           eq == FAT_Escape(q)
           EFrom(r) == ep \o SubSeq(r, Len(eq) + 1, Len(r))
           From(x)  == p \o SubSeq(x, Len(q) + 1, Len(x))
<1>1. /\ emu[ep].kind \in {"file", "dir"} /\ emu[eq] = Fat!Absent /\ Fat!IsDir(Fat!Parent(eq))
      /\ emu' = [r \in VolPath |->
           IF Fat!IsPrefix(eq, r) THEN (IF EFrom(r) \in VolPath THEN emu[EFrom(r)] ELSE Fat!Absent)
           ELSE IF Fat!IsPrefix(ep, r) THEN Fat!Absent ELSE emu[r]]
      /\ out' = <<>> /\ files' = files
  BY DEF Fat!Rename
<1>2. \A x \in Path : LET r == FAT_Escape(x) IN emu'[r] =
           IF Fat!IsPrefix(eq, r) THEN (IF EFrom(r) \in VolPath THEN emu[EFrom(r)] ELSE Fat!Absent)
           ELSE IF Fat!IsPrefix(ep, r) THEN Fat!Absent ELSE emu[r]
  <2> HIDE DEF ep, eq, EFrom
  <2> QED
    BY <1>1, VolPathType
<1>3. ASSUME NEW x \in Path, IsPrefix(q, x)
      PROVE  /\ EFrom(FAT_Escape(x)) = FAT_Escape(From(x))
             /\ EFrom(FAT_Escape(x)) \in VolPath <=> From(x) \in Path
  <2>1. /\ p \in Seq(Plain) /\ q \in Seq(Plain) /\ x \in Seq(Plain)
        /\ Len(q) \in Nat /\ Len(q) <= Len(x)
    BY <1>3, PathType, PrefixIs
  <2>2. /\ From(x) \in Seq(Plain)
        /\ FAT_Escape(From(x)) = FAT_Escape(p) \o SubSeq(FAT_Escape(x), Len(q) + 1, Len(x))
    BY <2>1, EscapeConcat
  <2>3. Len(eq) = Len(q) /\ Len(FAT_Escape(x)) = Len(x)
    BY <2>1, EscapeType
  <2>4. EFrom(FAT_Escape(x)) = FAT_Escape(From(x))
    <3> HIDE DEF From
    <3> QED
      BY <2>2, <2>3
  <2> HIDE DEF From, EFrom
  <2>5. EFrom(FAT_Escape(x)) \in VolPath <=> From(x) \in Path
    BY ZenonT(30), <2>2, <2>4, OneName, VolPathType
  <2> QED
    BY <2>4, <2>5
<1>4. \A x \in Path : emu'[FAT_Escape(x)] =
           IF Nand!IsPrefix(q, x)
           THEN (IF From(x) \in Path THEN emu[FAT_Escape(From(x))] ELSE Nand!Absent)
           ELSE IF Nand!IsPrefix(p, x) THEN Nand!Absent ELSE emu[FAT_Escape(x)]
  <2> HIDE DEF From, EFrom
  <2> QED
    BY <1>2, <1>3, SeenBelow, SameObjects
<1>5. Visible' = [x \in Path |-> emu'[FAT_Escape(x)]]
  BY DEF Visible
<1>6. Visible' = [x \in Path |->
           IF Nand!IsPrefix(q, x) THEN (IF From(x) \in Path THEN Visible[From(x)] ELSE Nand!Absent)
           ELSE IF Nand!IsPrefix(p, x) THEN Nand!Absent ELSE Visible[x]]
  <2> HIDE DEF From
  <2> QED
    BY <1>4, <1>5, VisibleIs
<1> QED
  BY <1>1, <1>6, SeenDir, SeenFiles, SameObjects DEF Nand!Rename

\* The size is told.
LEMMA SizeSeen ==
  ASSUME NEW p \in Path, Fat!Size(FAT_Escape(p))
  PROVE  Nand!Size(p)
BY SeenDir, SeenFiles DEF Fat!Size, Nand!Size

\* A set of paths has as many on the volume.
LEMMA SameNumber ==
  ASSUME NEW T \in SUBSET Path
  PROVE  /\ IsFiniteSet(T) /\ IsFiniteSet({FAT_Escape(x) : x \in T})
         /\ Cardinality({FAT_Escape(x) : x \in T}) = Cardinality(T)
<1> DEFINE S == {FAT_Escape(x) : x \in T}
           f == [x \in T |-> FAT_Escape(x)]
<1>1. IsFiniteSet(T)
  BY PathsAssumption, FS_Subset
<1>2. f \in Bijection(T, S)
  <2>1. f \in [T -> S] /\ \A s \in S : \E x \in T : f[x] = s
    OBVIOUS
  <2>2. \A x, y \in T : f[x] = f[y] => x = y
    BY OneName
  <2> HIDE DEF f, S
  <2> QED
    BY <2>1, <2>2 DEF Bijection, Injection, Surjection, IsInjective
<1>3. ExistsBijection(T, S)
  <2> HIDE DEF f, S
  <2> QED
    BY <1>2 DEF ExistsBijection
<1> HIDE DEF S
<1>4. IsFiniteSet(S) /\ Cardinality(S) = Cardinality(T)
  BY <1>1, <1>3, FS_Bijection
<1> QED
  BY <1>1, <1>4 DEF S

\* A finite set as a sequence has every element once.
LEMMA Listed ==
  ASSUME NEW S, IsFiniteSet(S)
  PROVE  /\ Len(SetToSeq(S)) = Cardinality(S)
         /\ {SetToSeq(S)[i] : i \in DOMAIN SetToSeq(S)} = S
<1> DEFINE n == Cardinality(S)
<1>1. n \in Nat /\ ExistsBijection(1 .. n, S)
  BY FS_CardinalityType
<1>2. PICK g : g \in Bijection(1 .. n, S)
  BY <1>1 DEF ExistsBijection
<1>3. g \in [1 .. n -> S] /\ IsInjective(g)
  BY <1>2 DEF Bijection, Injection, IsInjective
<1> DEFINE f == SetToSeq(S)
<1>4. f \in [1 .. n -> S] /\ IsInjective(f)
  BY <1>3 DEF SetToSeq
<1> HIDE DEF f, n
<1>5. f \in Injection(1 .. n, S)
  BY <1>4 DEF Injection, IsInjective
<1>6. Cardinality(1 .. n) = n
  BY <1>1, FS_Interval
<1>7. f \in Surjection(1 .. n, S)
  BY <1>5, <1>6, FS_Injection DEF n
<1>8. {f[i] : i \in DOMAIN f} = S
  BY <1>4, <1>7 DEF Surjection
<1>9. Len(f) = n
  BY <1>1, <1>4
<1> QED
  BY <1>8, <1>9 DEF f, n

\* The promise counts as the model does.
LEMMA SameCount == \A S : Nand!Cardinality(S) = Cardinality(S)
BY DEF Nand!Cardinality, Cardinality

\* A listing.
LEMMA ListSeen ==
  ASSUME NEW p \in Path, Fat!IsDir(FAT_Escape(p)), out' = Names(FAT_Escape(p)),
         emu' = emu, files' = files
  PROVE  Nand!List(p)
<1> DEFINE C == Nand!Children(p)
           N == {Last(x) : x \in C}
<1>1. C \in SUBSET Path /\ \A x \in C : x = Append(p, Last(x))
  BY SeenChildren, UpEscaped
<1>2. Fat!Children(FAT_Escape(p)) = {FAT_Escape(x) : x \in C}
  BY SeenChildren
<1>3. {FAT_Unescape(Last(q)) : q \in Fat!Children(FAT_Escape(p))} = N
  <2> HIDE DEF C
  <2>1. \A x \in C : FAT_Unescape(Last(FAT_Escape(x))) = Last(x)
    BY <1>1, TitleOf
  <2> QED
    BY <1>2, <2>1
<1>4. out' = SetToSeq(N)
  BY <1>3 DEF Names
<1>5. IsFiniteSet(C)
  BY <1>1, SameNumber
<1> HIDE DEF C
<1>6. IsFiniteSet(N) /\ Cardinality(N) = Cardinality(C)
  <2> DEFINE f == [x \in C |-> Last(x)]
  <2>1. f \in [C -> N] /\ (\A s \in N : \E x \in C : f[x] = s)
        /\ (\A x, y \in C : f[x] = f[y] => x = y)
    BY <1>1
  <2> HIDE DEF f, N
  <2>2. f \in Bijection(C, N)
    BY <2>1 DEF Bijection, Injection, Surjection, IsInjective
  <2>3. ExistsBijection(C, N)
    BY <2>2 DEF ExistsBijection
  <2> QED
    BY <1>5, <2>3, FS_Bijection
<1>7. {Append(p, n) : n \in N} = C
  BY <1>1
<1>8. Len(out') = Cardinality(C) /\ {out'[i] : i \in DOMAIN out'} = N
  <2> HIDE DEF N
  <2> QED
    BY <1>4, <1>6, Listed
<1>9. {Append(p, out'[i]) : i \in DOMAIN out'} = C
  <2> HIDE DEF N
  <2> QED
    BY <1>7, <1>8
<1>10. Nand!IsDir(p) /\ Visible' = Visible /\ VisibleFiles' = VisibleFiles
  BY SeenDir, SeenFiles
<1> QED
  BY <1>8, <1>9, <1>10, SameCount DEF Nand!List, C

\* The usage of a folder: the same files and folders are counted, and their data.
LEMMA UsageSeen ==
  ASSUME \A r \in VolPath : Len(emu[r].data) \in Nat,
         NEW p \in Path, Fat!Usage(FAT_Escape(p)),
         LET e == FAT_Escape(p)
         IN  out' = <<Cardinality(FilesUnder(e)),
                      Cardinality({q \in Under(e) : emu[q].kind = "dir"}), UnitsUnder(e)>>
  PROVE  Nand!Usage(p)
<1> DEFINE e     == FAT_Escape(p)
           under == {x \in Path : x # p /\ Nand!IsPrefix(p, x)}
           held  == {x \in under : Visible[x].kind \in {"file", "busy"}}
           dirs  == {x \in under : Visible[x].kind = "dir"}
           f     == [x \in held |-> FAT_Escape(x)]
           v     == [x \in held |-> Len(Visible[x].data)]
           w     == [q \in FilesUnder(e) |-> Len(emu[q].data)]
<1>1. Under(e) = {FAT_Escape(x) : x \in under}
  <2>1. VolPath = {FAT_Escape(x) : x \in Path}
    BY DEF VolPath
  <2> QED
    BY <2>1, SeenBelow DEF Under
<1>2. FilesUnder(e) = {FAT_Escape(x) : x \in held}
  <2> HIDE DEF e
  <2> QED
    BY <1>1, VisibleIs DEF FilesUnder
<1>3. {q \in Under(e) : emu[q].kind = "dir"} = {FAT_Escape(x) : x \in dirs}
  <2> HIDE DEF e
  <2> QED
    BY <1>1, VisibleIs
<1>4. held \in SUBSET Path /\ dirs \in SUBSET Path
  OBVIOUS
<1>5. Cardinality(FilesUnder(e)) = Cardinality(held)
      /\ Cardinality({q \in Under(e) : emu[q].kind = "dir"}) = Cardinality(dirs)
      /\ IsFiniteSet(held) /\ IsFiniteSet(FilesUnder(e))
  <2> HIDE DEF held, dirs, e
  <2> QED
    BY <1>2, <1>3, <1>4, SameNumber
<1>6. v \in [held -> Nat] /\ w \in [FilesUnder(e) -> Nat]
  <2>1. \A x \in held : Visible[x] = emu[FAT_Escape(x)] /\ FAT_Escape(x) \in VolPath
    BY <1>4, VisibleIs, VolPathType
  <2>2. FilesUnder(e) \subseteq VolPath
    BY DEF FilesUnder, Under
  <2> HIDE DEF held, e
  <2> QED
    BY <2>1, <2>2
<1>7. PICK b : Adds(w, FilesUnder(e), b) /\ UnitsUnder(e) = b[FilesUnder(e)]
  <2> DEFINE S == FilesUnder(e)
             Is(it) == it = [s \in SUBSET S |->
                         IF s = {} THEN 0
                         ELSE LET x == CHOOSE x \in s : TRUE
                              IN  Len(emu[x].data) + it[s \ {x}]]
  <2>1. \A it : Is(it) <=> Adds(w, S, it)
    <3>1. ASSUME NEW s \in SUBSET S, s # {}
          PROVE  Some(s) = (CHOOSE x \in s : TRUE) /\ w[Some(s)] = Len(emu[Some(s)].data)
      BY <3>1 DEF Some
    <3> HIDE DEF w, S
    <3> QED
      BY <3>1 DEF Adds, Some
  <2>2. \E it : Is(it)
    <3> HIDE DEF Is, w, S
    <3>1. \E it : Adds(w, S, it)
      BY <1>5, <1>6, SumExists DEF S
    <3> QED
      BY <2>1, <3>1
  <2>3. UnitsUnder(e) = (CHOOSE it : Is(it))[S]
    BY DEF UnitsUnder, MapThenSumSet, MapThenFoldSet
  <2> HIDE DEF Is, w, S
  <2>4. Is(CHOOSE it : Is(it))
    BY <2>2
  <2> QED
    BY <2>1, <2>3, <2>4 DEF S
<1>8. PICK a : Adds(v, held, a)
               /\ Nand!MapThenSumSet(LAMBDA q : Len(Visible[q].data), held) = a[held]
  <2> DEFINE Is(it) == it = [s \in SUBSET held |->
                         IF s = {} THEN 0
                         ELSE LET x == CHOOSE x \in s : TRUE
                              IN  Len(Visible[x].data) + it[s \ {x}]]
  <2>1. \A it : Is(it) <=> Adds(v, held, it)
    <3>1. ASSUME NEW s \in SUBSET held, s # {}
          PROVE  Some(s) = (CHOOSE x \in s : TRUE) /\ v[Some(s)] = Len(Visible[Some(s)].data)
      BY <3>1 DEF Some
    <3> HIDE DEF v, held
    <3> QED
      BY <3>1 DEF Adds, Some
  <2>2. \E it : Is(it)
    <3> HIDE DEF Is, v, held
    <3>1. \E it : Adds(v, held, it)
      BY <1>5, <1>6, SumExists
    <3> QED
      BY <2>1, <3>1
  <2>3. Nand!MapThenSumSet(LAMBDA q : Len(Visible[q].data), held) = (CHOOSE it : Is(it))[held]
    BY DEF Nand!MapThenSumSet, Nand!MapThenFoldSet, MapThenFoldSet
  <2> HIDE DEF Is, v, held
  <2>4. Is(CHOOSE it : Is(it))
    BY <2>2
  <2> QED
    BY <2>1, <2>3, <2>4
<1>9. a[held] = b[FilesUnder(e)]
  <2>1. /\ \A x \in held : f[x] = FAT_Escape(x) /\ v[x] = w[f[x]]
        /\ \A x, y \in held : f[x] = f[y] => x = y
        /\ FilesUnder(e) = {f[x] : x \in held}
    <3>1. \A x \in held : x \in Path /\ FAT_Escape(x) \in FilesUnder(e)
      BY <1>2, <1>4
    <3> HIDE DEF held, e
    <3> QED
      BY <1>2, <3>1, VisibleIs, OneName
  <2>2. IsFiniteSet(held) /\ v \in [held -> Nat]
    BY <1>5, <1>6
  <2>3. Adds(v, held, a) /\ Adds(w, FilesUnder(e), b)
    BY <1>7, <1>8
  <2>4. w \in [FilesUnder(e) -> Nat]
    BY <1>6
  <2> HIDE DEF held, e, f, v, w
  <2> DEFINE S == {f[x] : x \in held}
  <2>5. w \in [S -> Nat] /\ Adds(w, S, b)
    BY <2>1, <2>3, <2>4
  <2>6. a[held] = b[S]
    <3>1. /\ \A x \in held : v[x] = w[f[x]]
          /\ \A x, y \in held : f[x] = f[y] => x = y
      BY <2>1
    <3>2. Adds(v, held, a)
      BY <2>3
    <3> QED
      BY ONLY <2>2, <2>5, <3>1, <3>2, SumAcross
  <2> QED
    BY <2>1, <2>6
<1>10. Fat!IsDir(e) /\ emu' = emu /\ files' = files
  BY DEF Fat!Usage
<1> HIDE DEF e
<1>11. /\ Len(out') = 3 /\ out'[1] = Cardinality(held) /\ out'[2] = Cardinality(dirs)
       /\ out'[3] = Nand!MapThenSumSet(LAMBDA q : Len(Visible[q].data), held)
  <2> HIDE DEF held, dirs
  <2> QED
    BY <1>5, <1>7, <1>8, <1>9 DEF e
<1>12. out'[1] = Nand!Cardinality(held) /\ out'[2] = Nand!Cardinality(dirs)
  BY <1>11, SameCount
<1>13. Nand!IsDir(p) /\ Visible' = Visible /\ VisibleFiles' = VisibleFiles
  BY <1>10, SeenDir, SeenFiles DEF e
<1> QED
  BY <1>11, <1>12, <1>13, Zenon DEF Nand!Usage

-----------------------------------------------------------------------------
(* The types of the volume and of the files *)

Kinds == {Fat!Absent, Fat!Directory, Fat!Busy} \cup {Fat!AFile(d) : d \in Seq(Stamp)}
Handle == [path : VolPath, data : Seq(Stamp), pos : Nat, mode : SUBSET {"R", "W"}]
Typed ==
  /\ emu \in [VolPath -> Kinds]
  /\ files \in [Fil -> Handle \cup {Fat!Closed}]
  /\ \A h \in Fil : files[h].pos <= Len(files[h].data)

\* What is busy on the volume is open for writing.
Busied == \A q \in VolPath : emu[q] = Fat!Busy =>
            \E h \in Fil : "W" \in files[h].mode /\ files[h].path = q

NandInv == PathsInv /\ Typed /\ Busied

\* Of every object it is known how much it holds.
LEMMA KindsAre ==
  /\ \A x \in Kinds : x.data \in Seq(Stamp) /\ Len(x.data) \in Nat /\ (x.kind = "busy" => x = Fat!Busy)
  /\ Fat!Absent \in Kinds /\ Fat!Directory \in Kinds /\ Fat!Busy \in Kinds
  /\ \A d \in Seq(Stamp) : Fat!AFile(d) \in Kinds /\ Fat!AFile(d) # Fat!Busy
  /\ Fat!AFile(<<>>) \in Kinds /\ Fat!AFile(<<>>) # Fat!Busy
  /\ Fat!Absent # Fat!Busy /\ Fat!Directory # Fat!Busy
<1>1. <<>> \in Seq(Stamp) /\ \A d \in Seq(Stamp) : Len(d) \in Nat
  OBVIOUS
<1>2. /\ Fat!Absent \in Kinds /\ Fat!Directory \in Kinds /\ Fat!Busy \in Kinds
      /\ \A d \in Seq(Stamp) : Fat!AFile(d) \in Kinds
  BY DEF Kinds
<1>3. /\ Fat!Absent # Fat!Busy /\ Fat!Directory # Fat!Busy /\ \A d : Fat!AFile(d) # Fat!Busy
      /\ Fat!Absent.kind # "busy" /\ Fat!Directory.kind # "busy" /\ \A d : Fat!AFile(d).kind # "busy"
      /\ Fat!Absent.data = <<>> /\ Fat!Directory.data = <<>> /\ Fat!Busy.data = <<>>
      /\ \A d : Fat!AFile(d).data = d
  BY DEF Fat!Absent, Fat!Directory, Fat!Busy, Fat!AFile
<1>4. ASSUME NEW x \in Kinds
      PROVE  x.data \in Seq(Stamp) /\ (x.kind = "busy" => x = Fat!Busy)
  <2>1. CASE x \in {Fat!Absent, Fat!Directory, Fat!Busy}
    BY <1>1, <1>3, <2>1
  <2>2. ASSUME NEW d \in Seq(Stamp), x = Fat!AFile(d)
        PROVE  x.data \in Seq(Stamp) /\ (x.kind = "busy" => x = Fat!Busy)
    BY <1>3, <2>2
  <2> QED
    BY <2>1, <2>2 DEF Kinds
<1> QED
  BY <1>1, <1>2, <1>3, <1>4

\* An open file, and one that is not.
LEMMA HandlesAre ==
  ASSUME Typed, NEW h \in Fil
  PROVE  /\ files[h] = Fat!Closed \/ files[h] \in Handle
         /\ files[h].data \in Seq(Stamp) /\ Len(files[h].data) \in Nat /\ files[h].pos \in Nat
         /\ files[h].pos <= Len(files[h].data)
         /\ files[h] = [path |-> files[h].path, data |-> files[h].data,
                        pos |-> files[h].pos, mode |-> files[h].mode]
         /\ files[h].mode \in SUBSET {"R", "W"}
         /\ files[h] # Fat!Closed => files[h].path \in VolPath
         /\ files[h].path = <<>> => files[h] = Fat!Closed
<1>1. files[h] = Fat!Closed \/ files[h] \in Handle
  BY DEF Typed
<1>2. files[h].pos <= Len(files[h].data)
  BY DEF Typed
<1>3. CASE files[h] = Fat!Closed
  <2>1. <<>> \in Seq(Stamp) /\ Len(<<>>) \in Nat
    OBVIOUS
  <2> QED
    BY <1>2, <1>3, <2>1 DEF Fat!Closed
<1>4. CASE files[h] \in Handle
  <2>1. <<>> \notin VolPath
    <3>1. \A p \in Path : FAT_Escape(p) # <<>>
      BY PathType, EscapeType
    <3> QED
      BY <3>1 DEF VolPath
  <2>2. files[h].path \in VolPath /\ files[h].data \in Seq(Stamp) /\ files[h].pos \in Nat
        /\ files[h].mode \in SUBSET {"R", "W"}
        /\ files[h] = [path |-> files[h].path, data |-> files[h].data,
                       pos |-> files[h].pos, mode |-> files[h].mode]
    BY <1>4 DEF Handle
  <2>3. Len(files[h].data) \in Nat
    BY <2>2
  <2> QED
    BY <1>2, <1>4, <2>1, <2>2, <2>3
<1> QED
  BY <1>1, <1>3, <1>4

\* A file as a title sees it.
LEMMA SeenHandle ==
  ASSUME Typed, NEW h \in Fil
  PROVE  /\ VisibleFiles[h] = [path |-> Title(files[h].path), data |-> files[h].data,
                               pos |-> files[h].pos, mode |-> files[h].mode]
         /\ VisibleFiles[h].path = Title(files[h].path) /\ VisibleFiles[h].data = files[h].data
         /\ VisibleFiles[h].pos = files[h].pos /\ VisibleFiles[h].mode = files[h].mode
         /\ VisibleFiles[h] = Fat!Closed <=> files[h] = Fat!Closed
         /\ files[h] # Fat!Closed =>
              /\ Title(files[h].path) \in Path
              /\ files[h].path = FAT_Escape(Title(files[h].path))
<1>1. files[h] = [path |-> files[h].path, data |-> files[h].data,
                  pos |-> files[h].pos, mode |-> files[h].mode]
  BY HandlesAre
<1>2. VisibleFiles[h] = [files[h] EXCEPT !.path = Title(@)]
  BY SeenFiles
<1>3. VisibleFiles[h] = [path |-> Title(files[h].path), data |-> files[h].data,
                         pos |-> files[h].pos, mode |-> files[h].mode]
  BY <1>1, <1>2
<1>4. Title(<<>>) = <<>>
  BY DEF Title
<1>5. files[h] # Fat!Closed =>
        /\ Title(files[h].path) \in Path
        /\ files[h].path = FAT_Escape(Title(files[h].path))
  <2>1. files[h] # Fat!Closed => files[h].path \in VolPath
    BY HandlesAre
  <2> QED
    BY <2>1, OneName
<1>6. files[h] = Fat!Closed => VisibleFiles[h] = Fat!Closed
  BY <1>3, <1>4 DEF Fat!Closed
<1>7. files[h] # Fat!Closed => VisibleFiles[h] # Fat!Closed
  <2>1. \A p \in Path : p # <<>>
    BY PathType
  <2> QED
    BY <1>3, <1>5, <2>1 DEF Fat!Closed
<1> QED
  BY <1>3, <1>5, <1>6, <1>7

\* A change of one file.
LEMMA SeenOther ==
  ASSUME Typed, NEW h \in Fil, NEW f, files' = [files EXCEPT ![h] = f]
  PROVE  VisibleFiles' = [VisibleFiles EXCEPT ![h] = [f EXCEPT !.path = Title(@)]]
<1>1. files'[h] = f /\ \A g \in Fil \ {h} : files'[g] = files[g]
  BY DEF Typed
<1>2. VisibleFiles' = [g \in Fil |-> IF g = h THEN [f EXCEPT !.path = Title(@)]
                                     ELSE VisibleFiles[g]]
  BY <1>1, SeenFiles
<1>3. DOMAIN VisibleFiles = Fil
  BY SeenFiles
<1> QED
  BY ZenonT(40), <1>2, <1>3, SeenFiles

\* The same, of a file given by its parts.
LEMMA SeenChange ==
  ASSUME Typed, NEW h \in Fil, NEW q, NEW data, NEW pos, NEW m,
         files' = [files EXCEPT ![h] = [path |-> q, data |-> data, pos |-> pos, mode |-> m]]
  PROVE  VisibleFiles' =
           [VisibleFiles EXCEPT ![h] = [path |-> Title(q), data |-> data, pos |-> pos, mode |-> m]]
<1> DEFINE f == [path |-> q, data |-> data, pos |-> pos, mode |-> m]
<1>1. [f EXCEPT !.path = Title(@)] = [path |-> Title(q), data |-> data, pos |-> pos, mode |-> m]
  OBVIOUS
<1> HIDE DEF f
<1>2. VisibleFiles' = [VisibleFiles EXCEPT ![h] = [f EXCEPT !.path = Title(@)]]
  BY SeenOther DEF f
<1> QED
  BY <1>1, <1>2

\* A change of one file keeps the types.
LEMMA FileTyped ==
  ASSUME Typed, NEW h \in Fil, NEW f \in Handle \cup {Fat!Closed}, f.pos <= Len(f.data),
         files' = [files EXCEPT ![h] = f], emu' \in [VolPath -> Kinds]
  PROVE  Typed'
BY DEF Typed

-----------------------------------------------------------------------------
(* What a title sees of its files *)

\* The record of a file with another position or data.
LEMMA Changed ==
  ASSUME Typed, NEW h \in Fil, NEW pos, NEW data
  PROVE  LET f == files[h]
         IN  /\ [files EXCEPT ![h].pos = pos] = [files EXCEPT ![h] =
                  [path |-> f.path, data |-> f.data, pos |-> pos, mode |-> f.mode]]
             /\ [files EXCEPT ![h].pos = pos, ![h].data = data] = [files EXCEPT ![h] =
                  [path |-> f.path, data |-> data, pos |-> pos, mode |-> f.mode]]
<1> DEFINE f == files[h]
<1>1. f = [path |-> f.path, data |-> f.data, pos |-> f.pos, mode |-> f.mode]
  BY HandlesAre
<1>2. h \in DOMAIN files
  BY DEF Typed
<1> HIDE DEF f
<1>3. [f EXCEPT !.pos = pos] = [path |-> f.path, data |-> f.data, pos |-> pos, mode |-> f.mode]
  BY <1>1
<1>4. [[f EXCEPT !.pos = pos] EXCEPT !.data = data]
        = [path |-> f.path, data |-> data, pos |-> pos, mode |-> f.mode]
  <2> DEFINE moved == [f EXCEPT !.pos = pos]
  <2>1. moved = [path |-> f.path, data |-> f.data, pos |-> pos, mode |-> f.mode]
    BY <1>3
  <2> HIDE DEF moved
  <2>2. [moved EXCEPT !.data = data] = [path |-> f.path, data |-> data, pos |-> pos, mode |-> f.mode]
    BY <2>1
  <2> QED
    BY <2>2 DEF moved
<1>5. [files EXCEPT ![h].pos = pos] = [files EXCEPT ![h] = [f EXCEPT !.pos = pos]]
  BY DEF f
<1>6. [files EXCEPT ![h].pos = pos, ![h].data = data]
        = [files EXCEPT ![h] = [[f EXCEPT !.pos = pos] EXCEPT !.data = data]]
  BY <1>2 DEF f
<1> QED
  BY <1>3, <1>4, <1>5, <1>6 DEF f

\* The same of what a title sees.
LEMMA ChangedSeen ==
  ASSUME Typed, NEW h \in Fil, NEW pos, NEW data
  PROVE  LET f == VisibleFiles[h]
         IN  /\ [VisibleFiles EXCEPT ![h].pos = pos] = [VisibleFiles EXCEPT ![h] =
                  [path |-> f.path, data |-> f.data, pos |-> pos, mode |-> f.mode]]
             /\ [VisibleFiles EXCEPT ![h].pos = pos, ![h].data = data] = [VisibleFiles EXCEPT ![h] =
                  [path |-> f.path, data |-> data, pos |-> pos, mode |-> f.mode]]
<1> DEFINE f == VisibleFiles[h]
<1>1. f = [path |-> f.path, data |-> f.data, pos |-> f.pos, mode |-> f.mode]
  <2> DEFINE g == files[h]
  <2>1. f = [path |-> Title(g.path), data |-> g.data, pos |-> g.pos, mode |-> g.mode]
    BY SeenHandle
  <2> HIDE DEF f, g
  <2> QED
    BY <2>1
<1>2. h \in DOMAIN VisibleFiles
  BY SeenFiles
<1> HIDE DEF f
<1>3. [f EXCEPT !.pos = pos] = [path |-> f.path, data |-> f.data, pos |-> pos, mode |-> f.mode]
  BY <1>1
<1>4. [[f EXCEPT !.pos = pos] EXCEPT !.data = data]
        = [path |-> f.path, data |-> data, pos |-> pos, mode |-> f.mode]
  <2> DEFINE moved == [f EXCEPT !.pos = pos]
  <2>1. moved = [path |-> f.path, data |-> f.data, pos |-> pos, mode |-> f.mode]
    BY <1>3
  <2> HIDE DEF moved
  <2>2. [moved EXCEPT !.data = data] = [path |-> f.path, data |-> data, pos |-> pos, mode |-> f.mode]
    BY <2>1
  <2> QED
    BY <2>2 DEF moved
<1>5. [VisibleFiles EXCEPT ![h].pos = pos] = [VisibleFiles EXCEPT ![h] = [f EXCEPT !.pos = pos]]
  BY DEF f
<1>6. [VisibleFiles EXCEPT ![h].pos = pos, ![h].data = data]
        = [VisibleFiles EXCEPT ![h] = [[f EXCEPT !.pos = pos] EXCEPT !.data = data]]
  BY <1>2 DEF f
<1> QED
  BY <1>3, <1>4, <1>5, <1>6 DEF f

\* The smaller and the larger of two numbers are the same for both.
LEMMA MinMaxIs ==
  ASSUME NEW a \in Nat, NEW b \in Nat
  PROVE  /\ Fat!Min({a, b}) = Nand!Min({a, b}) /\ Fat!Max({a, b}) = Nand!Max({a, b})
         /\ Fat!Min({a, b}) \in Nat /\ Fat!Min({a, b}) <= a /\ Fat!Min({a, b}) <= b
         /\ Fat!Max({a, b}) \in Nat /\ Fat!Max({a, b}) >= a /\ Fat!Max({a, b}) >= b
         /\ Fat!Max({a, b}) \in {a, b}
<1> DEFINE S == {a, b}
<1>1. Fat!Min(S) = (CHOOSE x \in S : \A y \in S : x =< y) /\ Fat!Max(S) = (CHOOSE x \in S : \A y \in S : x >= y)
  BY DEF Fat!Min, Min, Fat!Max, Max
<1>2. Nand!Min(S) = (CHOOSE x \in S : \A y \in S : x =< y) /\ Nand!Max(S) = (CHOOSE x \in S : \A y \in S : x >= y)
  BY DEF Nand!Min, Min, Nand!Max, Max
<1>3. (\E x \in S : \A y \in S : x =< y) /\ (\E x \in S : \A y \in S : x >= y)
  OBVIOUS
<1>4. Fat!Min(S) \in S /\ \A y \in S : Fat!Min(S) =< y
  BY <1>1, <1>3
<1>5. Fat!Max(S) \in S /\ \A y \in S : Fat!Max(S) >= y
  BY <1>1, <1>3
<1> QED
  BY <1>1, <1>2, <1>4, <1>5

\* Data of which k units from ofs on are written.
Rewritten(d, ofs, k, x, n) == [i \in 1 .. n |-> IF i \in ofs + 1 .. ofs + k THEN x ELSE d[i]]

\* Such data is data, and as long as its bound.
LEMMA RewrittenType ==
  ASSUME NEW d \in Seq(Stamp), NEW ofs \in Nat, ofs <= Len(d), NEW k \in Nat, NEW x \in Stamp,
         NEW n \in {Len(d), ofs + k}
  PROVE  Rewritten(d, ofs, k, x, n) \in Seq(Stamp) /\ Len(Rewritten(d, ofs, k, x, n)) = n
<1>1. Len(d) \in Nat /\ n \in Nat
  OBVIOUS
<1>2. ASSUME NEW i \in 1 .. n
      PROVE  (IF i \in ofs + 1 .. ofs + k THEN x ELSE d[i]) \in Stamp
  <2>1. CASE i \in 1 .. Len(d)
    <3>1. d[i] \in Stamp
      BY <2>1
    <3> QED
      BY <3>1
  <2>2. CASE i \notin 1 .. Len(d)
    <3>1. i \in ofs + 1 .. ofs + k
      BY <1>1, <1>2, <2>2
    <3> QED
      BY <3>1
  <2> QED
    BY <2>1, <2>2
<1>3. Rewritten(d, ofs, k, x, n) \in [1 .. n -> Stamp]
  BY <1>2 DEF Rewritten
<1> QED
  BY <1>1, <1>3

\* The volume is left as it is, and so is what is open for writing.
LEMMA SameBusied ==
  ASSUME NandInv, NEW h \in Fil, NEW f \in Handle, files[h] # Fat!Closed, emu' = emu,
         f.path = files[h].path, f.mode = files[h].mode, f.pos <= Len(f.data),
         files' = [files EXCEPT ![h] = f]
  PROVE  Typed' /\ Busied'
<1>1. Typed /\ Busied
  BY DEF NandInv
<1>2. \A g \in Fil : files'[g].path = files[g].path /\ files'[g].mode = files[g].mode
  BY <1>1 DEF Typed
<1>3. Typed'
  <2>1. emu' \in [VolPath -> Kinds]
    BY <1>1 DEF Typed
  <2> QED
    BY <1>1, <2>1, FileTyped
<1> QED
  BY <1>1, <1>2, <1>3 DEF Busied

\* A read.
LEMMA ReadSeen ==
  ASSUME NandInv, NEW h \in Fil, files[h] # Fat!Closed, NEW n \in Nat, Fat!Read(h, n)
  PROVE  Nand!Read(h, n) /\ Typed' /\ Busied'
<1> DEFINE f == files[h]
           v == VisibleFiles[h]
           a == Len(f.data) - f.pos
           k == Fat!Min({n, a})
<1>1. Typed
  BY DEF NandInv
<1>2. /\ f \in Handle /\ f.data \in Seq(Stamp) /\ Len(f.data) \in Nat /\ f.pos \in Nat
      /\ f.pos <= Len(f.data)
  BY <1>1, HandlesAre
<1>3. v.path = Title(f.path) /\ v.data = f.data /\ v.pos = f.pos /\ v.mode = f.mode
  BY <1>1, SeenHandle
<1>4. /\ "R" \in f.mode /\ emu' = emu /\ out' = SubSeq(f.data, f.pos + 1, f.pos + k)
      /\ files' = [files EXCEPT ![h].pos = f.pos + k]
  BY DEF Fat!Read
<1>5. a \in Nat
  BY <1>2
<1> HIDE DEF a
<1>6. k \in Nat /\ k <= a /\ k = Nand!Min({n, a})
  BY <1>5, MinMaxIs
<1> HIDE DEF k, v
<1>7. files' = [files EXCEPT ![h] =
        [path |-> f.path, data |-> f.data, pos |-> f.pos + k, mode |-> f.mode]]
  BY <1>1, <1>4, Changed
<1>8. VisibleFiles' = [VisibleFiles EXCEPT ![h] =
        [path |-> v.path, data |-> v.data, pos |-> v.pos + k, mode |-> v.mode]]
  <2> HIDE DEF f
  <2> QED
    BY <1>1, <1>3, <1>7, SeenChange, ZenonT(60)
<1>9. VisibleFiles' = [VisibleFiles EXCEPT ![h].pos = v.pos + k]
  BY <1>1, <1>8, ChangedSeen DEF v
<1>10. k = Nand!Min({n, Len(v.data) - v.pos})
  BY <1>3, <1>6 DEF a
<1>11. Nand!Read(h, n)
  <2>1. "R" \in v.mode /\ out' = SubSeq(v.data, v.pos + 1, v.pos + k)
    BY <1>3, <1>4
  <2>2. Visible' = Visible
    BY <1>4, SeenFiles
  <2> QED
    BY <1>9, <1>10, <2>1, <2>2 DEF Nand!Read, v
<1>12. Typed' /\ Busied'
  <2> DEFINE g == [path |-> f.path, data |-> f.data, pos |-> f.pos + k, mode |-> f.mode]
  <2>1. g \in Handle /\ g.path = f.path /\ g.mode = f.mode /\ g.pos <= Len(g.data)
    <3>1. f.pos + k \in Nat /\ f.pos + k <= Len(f.data)
      BY <1>2, <1>6 DEF a
    <3> QED
      BY <1>2, <3>1 DEF Handle
  <2> HIDE DEF g
  <2>2. files' = [files EXCEPT ![h] = g]
    BY <1>7 DEF g
  <2> QED
    BY <1>4, <2>1, <2>2, SameBusied
<1> QED
  BY <1>11, <1>12

\* A write.
LEMMA WriteSeen ==
  ASSUME NandInv, NEW h \in Fil, files[h] # Fat!Closed, NEW k \in Nat, NEW x \in Stamp,
         Fat!Write(h, k, x)
  PROVE  Nand!Write(h, k, x) /\ Typed' /\ Busied'
<1> DEFINE f == files[h]
           v == VisibleFiles[h]
           a == Len(f.data)
           b == f.pos + k
           n == Fat!Max({a, b})
           d == Rewritten(f.data, f.pos, k, x, n)
<1>1. Typed
  BY DEF NandInv
<1>2. /\ f \in Handle /\ f.data \in Seq(Stamp) /\ Len(f.data) \in Nat /\ f.pos \in Nat
      /\ f.pos <= Len(f.data)
  BY <1>1, HandlesAre
<1>3. v.path = Title(f.path) /\ v.data = f.data /\ v.pos = f.pos /\ v.mode = f.mode
  BY <1>1, SeenHandle
<1>4. /\ "W" \in f.mode /\ emu' = emu /\ out' = <<>>
      /\ files' = [files EXCEPT ![h].pos = b, ![h].data = d]
  BY DEF Fat!Write, Rewritten
<1>5. a \in Nat /\ b \in Nat
  BY <1>2
<1>6. n \in Nat /\ n >= b /\ n \in {a, b} /\ n = Nand!Max({a, b})
  <2> HIDE DEF a, b
  <2> QED
    BY <1>5, MinMaxIs
<1>7. d \in Seq(Stamp) /\ Len(d) = n
  <2>1. n \in {Len(f.data), f.pos + k}
    BY <1>6
  <2> HIDE DEF n, f
  <2> QED
    BY <1>2, <2>1, RewrittenType, ZenonT(60)
<1>8. d = [i \in 1 .. Nand!Max({Len(v.data), v.pos + k}) |->
             IF i \in v.pos + 1 .. v.pos + k THEN x ELSE v.data[i]]
  BY <1>3, <1>6 DEF Rewritten
<1> HIDE DEF d, v
<1>9. files' = [files EXCEPT ![h] = [path |-> f.path, data |-> d, pos |-> b, mode |-> f.mode]]
  BY <1>1, <1>4, Changed, ZenonT(60)
<1>10. VisibleFiles' = [VisibleFiles EXCEPT ![h] =
         [path |-> v.path, data |-> d, pos |-> v.pos + k, mode |-> v.mode]]
  <2>1. b = v.pos + k
    BY <1>3
  <2> HIDE DEF f, b
  <2> QED
    BY <1>1, <1>3, <1>9, <2>1, SeenChange, ZenonT(60)
<1>11. VisibleFiles' = [VisibleFiles EXCEPT ![h].pos = v.pos + k, ![h].data = d]
  BY <1>1, <1>10, ChangedSeen, ZenonT(60) DEF v
<1>12. Nand!Write(h, k, x)
  <2>1. "W" \in v.mode
    BY <1>3, <1>4
  <2>2. Visible' = Visible
    BY <1>4, SeenFiles
  <2> QED
    BY <1>4, <1>8, <1>11, <2>1, <2>2 DEF Nand!Write, v
<1>13. Typed' /\ Busied'
  <2> DEFINE g == [path |-> f.path, data |-> d, pos |-> b, mode |-> f.mode]
  <2>1. g \in Handle /\ g.path = f.path /\ g.mode = f.mode /\ g.pos <= Len(g.data)
    BY <1>2, <1>5, <1>6, <1>7 DEF Handle
  <2> HIDE DEF g
  <2>2. files' = [files EXCEPT ![h] = g]
    BY <1>9 DEF g
  <2> QED
    BY <1>4, <2>1, <2>2, SameBusied
<1> QED
  BY <1>12, <1>13

\* A seek to the start.
LEMMA SeekSeen ==
  ASSUME NandInv, NEW h \in Fil, files[h] # Fat!Closed, Fat!Seek(h, 0)
  PROVE  /\ Nand!Seek(h, 0) /\ 0 \in 0 .. Len(VisibleFiles[h].data)
         /\ Typed' /\ Busied'
<1> DEFINE f == files[h]
           v == VisibleFiles[h]
<1>1. Typed
  BY DEF NandInv
<1>2. /\ f \in Handle /\ f.data \in Seq(Stamp) /\ Len(f.data) \in Nat
  BY <1>1, HandlesAre
<1>3. v.path = Title(f.path) /\ v.data = f.data /\ v.pos = f.pos /\ v.mode = f.mode
  BY <1>1, SeenHandle
<1>4. emu' = emu /\ out' = <<>> /\ files' = [files EXCEPT ![h].pos = 0]
  BY DEF Fat!Seek
<1> HIDE DEF v
<1>5. files' = [files EXCEPT ![h] = [path |-> f.path, data |-> f.data, pos |-> 0, mode |-> f.mode]]
  BY <1>1, <1>4, Changed
<1>6. VisibleFiles' = [VisibleFiles EXCEPT ![h] =
        [path |-> v.path, data |-> v.data, pos |-> 0, mode |-> v.mode]]
  <2> HIDE DEF f
  <2> QED
    BY <1>1, <1>3, <1>5, SeenChange, ZenonT(60)
<1>7. VisibleFiles' = [VisibleFiles EXCEPT ![h].pos = 0]
  BY <1>1, <1>6, ChangedSeen DEF v
<1>8. 0 <= Len(v.data) /\ 0 \in 0 .. Len(v.data)
  BY <1>2, <1>3
<1>9. Nand!Seek(h, 0)
  BY <1>4, <1>7, <1>8, SeenFiles DEF Nand!Seek, v
<1>10. Typed' /\ Busied'
  <2> DEFINE g == [path |-> f.path, data |-> f.data, pos |-> 0, mode |-> f.mode]
  <2>1. g \in Handle /\ g.path = f.path /\ g.mode = f.mode /\ g.pos <= Len(g.data)
    BY <1>2 DEF Handle
  <2> HIDE DEF g
  <2>2. files' = [files EXCEPT ![h] = g]
    BY <1>5 DEF g
  <2> QED
    BY <1>4, <2>1, <2>2, SameBusied
<1> QED
  BY <1>8, <1>9, <1>10 DEF v

\* A file is closed.
LEMMA CloseSeen ==
  ASSUME NandInv, NEW h \in Fil, Fat!Close(h)
  PROVE  Nand!Close(h) /\ Typed' /\ Busied'
<1> DEFINE f == files[h]
           p == Title(f.path)
           x == IF "W" \in f.mode THEN Fat!AFile(f.data) ELSE emu[f.path]
<1>1. Typed /\ Shaped /\ Busied
  BY DEF NandInv, PathsInv
<1>2. f # Fat!Closed /\ out' = <<>> /\ files' = [files EXCEPT ![h] = Fat!Closed]
      /\ emu' = [emu EXCEPT ![f.path] = x]
  BY DEF Fat!Close, Fat!Put
<1>3. p \in Path /\ f.path = FAT_Escape(p) /\ f.path \in VolPath /\ f.data \in Seq(Stamp)
  BY <1>1, <1>2, HandlesAre, SeenHandle
<1>4. VisibleFiles[h] # Fat!Closed /\ VisibleFiles[h].path = p /\ VisibleFiles[h].data = f.data
      /\ VisibleFiles[h].mode = f.mode
  BY <1>1, <1>2, SeenHandle
<1>5. VisibleFiles' = [VisibleFiles EXCEPT ![h] = Fat!Closed]
  <2>1. Title(<<>>) = <<>>
    BY DEF Title
  <2>2. [Fat!Closed EXCEPT !.path = Title(@)] = Fat!Closed
    BY <2>1 DEF Fat!Closed
  <2> DEFINE c == Fat!Closed
  <2>3. Typed /\ files' = [files EXCEPT ![h] = c]
    BY <1>1, <1>2
  <2> HIDE DEF c
  <2>4. VisibleFiles' = [VisibleFiles EXCEPT ![h] = [c EXCEPT !.path = Title(@)]]
    BY <2>3, SeenOther
  <2> QED
    BY <2>2, <2>4 DEF c
<1> HIDE DEF p
<1>6. Nand!Put(p, x)
  <2> HIDE DEF x, f
  <2> QED
    BY <1>1, <1>2, <1>3, SeenPut
<1>7. x = IF "W" \in VisibleFiles[h].mode THEN Nand!AFile(VisibleFiles[h].data)
          ELSE Visible[VisibleFiles[h].path]
  BY <1>3, <1>4, SameObjects, VisibleIs
<1>8. Nand!Close(h)
  <2> HIDE DEF x, f
  <2> QED
    BY <1>2, <1>4, <1>5, <1>6, <1>7, SameObjects DEF Nand!Close
<1>9. x \in Kinds /\ (x = Fat!Busy => "W" \notin f.mode /\ emu[f.path] = Fat!Busy)
  BY <1>1, <1>3, KindsAre DEF Typed
<1>10. Typed'
  <2>1. Fat!Closed.pos <= Len(Fat!Closed.data)
    BY DEF Fat!Closed
  <2>2. emu' \in [VolPath -> Kinds]
    <3> HIDE DEF x
    <3> QED
      BY <1>1, <1>2, <1>3, <1>9 DEF Typed
  <2> QED
    BY <1>1, <1>2, <2>1, <2>2, FileTyped
<1>11. Busied'
  <2> SUFFICES ASSUME NEW q \in VolPath, emu'[q] = Fat!Busy
               PROVE  \E g \in Fil : "W" \in files'[g].mode /\ files'[g].path = q
    BY DEF Busied
  <2>1. emu[q] = Fat!Busy /\ (q = f.path => "W" \notin f.mode)
    <3> HIDE DEF x
    <3> QED
      BY <1>1, <1>2, <1>3, <1>9 DEF Typed
  <2>2. PICK g \in Fil : "W" \in files[g].mode /\ files[g].path = q
    BY <1>1, <2>1 DEF Busied
  <2>3. g # h
    BY <2>1, <2>2
  <2>4. files'[g] = files[g]
    BY <1>1, <1>2, <2>3 DEF Typed
  <2> QED
    BY <2>2, <2>4
<1> QED
  BY <1>8, <1>10, <1>11

\* A file is opened.
LEMMA OpenSeen ==
  ASSUME NandInv, NEW h \in Fil, NEW p \in Path, NEW access \in {{"R"}, {"W"}},
         Fat!Open(h, FAT_Escape(p), access, emu[FAT_Escape(p)].data)
  PROVE  Nand!Open(h, p, access, Visible[p].data) /\ Typed' /\ Busied'
<1> DEFINE q == FAT_Escape(p)
           d == emu[q].data
           x == IF "W" \in access THEN Fat!Busy ELSE emu[q]
           f == [path |-> q, data |-> d, pos |-> 0, mode |-> access]
<1>1. Typed /\ Shaped /\ Busied /\ q \in VolPath
  BY VolPathType DEF NandInv, PathsInv
<1>2. /\ files[h] = Fat!Closed /\ out' = <<>> /\ files' = [files EXCEPT ![h] = f]
      /\ emu' = [emu EXCEPT ![q] = x]
      /\ \/ emu[q].kind = "file" /\ d \in {d, <<>>}
         \/ emu[q].kind = "absent" /\ Fat!IsDir(Fat!Parent(q)) /\ d = <<>> /\ "W" \in access
  BY DEF Fat!Open, Fat!Put
<1>3. Visible[p] = emu[q] /\ (Nand!IsDir(Nand!Parent(p)) <=> Fat!IsDir(Fat!Parent(q)))
  BY SeenDir
<1>4. VisibleFiles[h] = Fat!Closed
  BY <1>1, <1>2, SeenHandle
<1>5. VisibleFiles' = [VisibleFiles EXCEPT ![h] =
        [path |-> p, data |-> d, pos |-> 0, mode |-> access]]
  <2>1. Title(q) = p
    BY TitleOf
  <2>2. Typed /\ files' = [files EXCEPT ![h] = f]
    BY <1>1, <1>2
  <2>3. [f EXCEPT !.path = Title(@)] = [path |-> p, data |-> d, pos |-> 0, mode |-> access]
    <3> HIDE DEF q, d
    <3> QED
      BY <2>1
  <2> HIDE DEF f
  <2> QED
    BY <2>2, <2>3, SeenOther
<1>6. Nand!Put(p, x)
  <2> HIDE DEF x
  <2> QED
    BY <1>1, <1>2, SeenPut
<1>7. Nand!Open(h, p, access, Visible[p].data)
  <2> HIDE DEF q
  <2> QED
    BY <1>2, <1>3, <1>4, <1>5, <1>6, SameObjects DEF Nand!Open
<1>8. x \in Kinds /\ d \in Seq(Stamp)
  BY <1>1, KindsAre DEF Typed
<1>9. Typed'
  <2>1. emu' \in [VolPath -> Kinds]
    <3> HIDE DEF x, q
    <3> QED
      BY <1>1, <1>2, <1>8 DEF Typed
  <2>2. f \in Handle /\ f.pos <= Len(f.data)
    <3>1. access \in SUBSET {"R", "W"} /\ 0 <= Len(d)
      BY <1>8
    <3> HIDE DEF q, d
    <3> QED
      BY <1>1, <1>8, <3>1 DEF Handle
  <2> HIDE DEF f
  <2> QED
    BY <1>1, <1>2, <2>1, <2>2, FileTyped
<1>10. Busied'
  <2> SUFFICES ASSUME NEW r \in VolPath, emu'[r] = Fat!Busy
               PROVE  \E g \in Fil : "W" \in files'[g].mode /\ files'[g].path = r
    BY DEF Busied
  <2>1. /\ \A g \in Fil \ {h} : files'[g] = files[g]
        /\ files'[h].path = q /\ files'[h].mode = access
    BY <1>1, <1>2 DEF Typed
  <2>2. CASE r = q /\ "W" \in access
    BY <2>1, <2>2
  <2>3. CASE ~(r = q /\ "W" \in access)
    <3>1. emu[r] = Fat!Busy
      BY <1>1, <1>2, <2>3 DEF Typed
    <3>2. PICK g \in Fil : "W" \in files[g].mode /\ files[g].path = r
      BY <1>1, <3>1 DEF Busied
    <3>3. g # h
      BY <1>2, <3>2 DEF Fat!Closed
    <3> QED
      BY <2>1, <3>2, <3>3
  <2> QED
    BY <2>2, <2>3
<1> QED
  BY <1>7, <1>9, <1>10

-----------------------------------------------------------------------------
(* Each step is one that the promise allows *)

\* The calls of the promise.
LEMMA CallIs ==
  /\ Nand!Refuse => Nand!Call
  /\ \A p \in Path :
       \/ Nand!Create(p, Nand!Directory) \/ Nand!Create(p, Nand!AFile(<<>>))
       \/ Nand!Delete(p) \/ Nand!DeleteDir(p) \/ Nand!Size(p)
       \/ Nand!List(p) \/ Nand!Usage(p)
       \/ \E q \in Path : Nand!Rename(p, q)
       => Nand!Call
  /\ \A h \in Fil :
       \/ \E n \in 1 .. MaxLen : Nand!Read(h, n)
       \/ \E k \in 0 .. MaxLen, x \in Stamp : Nand!Write(h, k, x)
       \/ \E ofs \in 0 .. Len(VisibleFiles[h].data) : Nand!Seek(h, ofs)
       \/ Nand!Close(h)
       \/ \E p \in Path, m \in {{"R"}, {"W"}} : Nand!Open(h, p, m, Visible[p].data)
       => Nand!Call
<1>1. Nand!Refuse => Nand!Call
  BY DEF Nand!Call
<1>2. ASSUME NEW p \in Path
      PROVE  /\ Nand!Create(p, Nand!Directory) \/ Nand!Create(p, Nand!AFile(<<>>)) => Nand!Call
             /\ Nand!Delete(p) \/ Nand!DeleteDir(p) \/ Nand!Size(p) => Nand!Call
             /\ Nand!List(p) \/ Nand!Usage(p) => Nand!Call
             /\ (\E q \in Path : Nand!Rename(p, q)) => Nand!Call
  BY DEF Nand!Call
<1>3. ASSUME NEW h \in Fil
      PROVE  /\ (\E n \in 1 .. MaxLen : Nand!Read(h, n)) => Nand!Call
             /\ (\E k \in 0 .. MaxLen, x \in Stamp : Nand!Write(h, k, x)) => Nand!Call
             /\ (\E ofs \in 0 .. Len(VisibleFiles[h].data) : Nand!Seek(h, ofs)) => Nand!Call
             /\ Nand!Close(h) => Nand!Call
  BY DEF Nand!Call
<1>4. ASSUME NEW h \in Fil, NEW p \in Path, NEW m \in {{"R"}, {"W"}},
             Nand!Open(h, p, m, Visible[p].data)
      PROVE  Nand!Call
  BY <1>4 DEF Nand!Call
<1> QED
  BY <1>1, <1>2, <1>3, <1>4

\* What is not busy before is not afterwards, and no file is opened or closed.
LEMMA NoneBusier ==
  ASSUME Typed, Busied, files' = files, emu' \in [VolPath -> Kinds],
         \A q \in VolPath : emu'[q] = Fat!Busy => emu[q] = Fat!Busy
  PROVE  Typed' /\ Busied'
BY DEF Typed, Busied

\* What is moved is not open.
LEMMA RenameTyped ==
  ASSUME NandInv, NEW c \in CallSet, c.op = "mv", c.to \in VolPath, Safe(c), Fat!Rename(c.path, c.to)
  PROVE  Typed' /\ Busied'
<1> DEFINE p == c.path
           q == c.to
           From(r) == p \o SubSeq(r, Len(q) + 1, Len(r))
<1>1. Typed /\ Busied
  BY DEF NandInv
<1>2. emu' = [r \in VolPath |->
           IF IsPrefix(q, r) THEN (IF From(r) \in VolPath THEN emu[From(r)] ELSE Fat!Absent)
           ELSE IF IsPrefix(p, r) THEN Fat!Absent ELSE emu[r]]
      /\ files' = files
  BY DEF Fat!Rename, Fat!IsPrefix, IsPrefix
<1>3. p \in VolPath /\ p \in Seq(Raw) /\ q \in Seq(Raw)
  BY VolPathType DEF CallSet
<1>4. ASSUME NEW r \in VolPath, IsPrefix(q, r), From(r) \in VolPath
      PROVE  emu[From(r)] # Fat!Busy
  <2> SUFFICES ASSUME emu[From(r)] = Fat!Busy
               PROVE  FALSE
    OBVIOUS
  <2>1. PICK h \in Fil : "W" \in files[h].mode /\ files[h].path = From(r)
    BY <1>1, <1>4 DEF Busied
  <2>2. files[h] # Fat!Closed
    BY <2>1 DEF Fat!Closed
  <2>3. IsPrefix(p, From(r))
    <3>1. r \in Seq(Raw)
      BY VolPathType
    <3> DEFINE rest == SubSeq(r, Len(q) + 1, Len(r))
    <3>2. rest \in Seq(Raw)
      BY <1>3, <1>4, <3>1, PrefixIs
    <3> HIDE DEF rest, p
    <3>3. IsPrefix(p, p \o rest)
      BY <1>3, <3>2, RestOfConcat
    <3> QED
      BY <3>3 DEF rest
  <2>4. CASE NothingOpen
    BY <2>2, <2>4 DEF NothingOpen
  <2>5. ASSUME NEW f \in Path, NEW t \in Path, c \in Renaming(f, t), Unused(f)
        PROVE  FALSE
    <3>1. p = FAT_Escape(f)
      BY <2>5 DEF Renaming
    <3> HIDE DEF p, From
    <3> QED
      BY <2>1, <2>2, <2>3, <2>5, <3>1 DEF Unused
  <2> QED
    BY <2>4, <2>5 DEF Safe
<1>5. emu \in [VolPath -> Kinds]
  BY <1>1 DEF Typed
<1>6. emu' \in [VolPath -> Kinds]
  <2> HIDE DEF From, p, q
  <2> QED
    BY <1>2, <1>5, KindsAre
<1>7. ASSUME NEW r \in VolPath, emu'[r] = Fat!Busy
      PROVE  emu[r] = Fat!Busy
  <2> HIDE DEF From, p, q
  <2> QED
    BY <1>2, <1>4, <1>7, KindsAre
<1> QED
  BY <1>1, <1>2, <1>6, <1>7, NoneBusier

\* What the FAT module does for a call.
LEMMA WorkSeen ==
  ASSUME NandInv, NEW c \in CallSet, c.op = "mv" => c.to \in VolPath, Safe(c),
         Work(c) \/ Fat!Refuse
  PROVE  Nand!Call /\ Typed' /\ Busied'
<1>1. PICK p \in Path : c.path = FAT_Escape(p)
  BY VolPathType DEF CallSet
<1>2. Shaped /\ Typed /\ Busied /\ c.path \in VolPath /\ emu \in [VolPath -> Kinds]
  BY DEF NandInv, PathsInv, CallSet, Typed
<1>3. UNCHANGED <<emu, files>> => Typed' /\ Busied'
  BY <1>2, NoneBusier
<1>4. ASSUME NEW x, x = Fat!Directory \/ x = Fat!AFile(<<>>), Fat!Create(c.path, x)
      PROVE  Nand!Call /\ Typed' /\ Busied'
  <2>1. emu' = [emu EXCEPT ![c.path] = x] /\ files' = files
    BY <1>4 DEF Fat!Create, Fat!Put
  <2>2. x \in Kinds /\ x # Fat!Busy
    BY <1>4, KindsAre
  <2>3. Typed' /\ Busied'
    BY <1>2, <2>1, <2>2, NoneBusier
  <2>4. Nand!Create(p, x)
    BY <1>1, <1>2, <1>4, CreateSeen
  <2> QED
    BY <1>4, <2>3, <2>4, CallIs, SameObjects
<1>5. CASE Fat!Delete(c.path)
  <2>1. emu' = [emu EXCEPT ![c.path] = Fat!Absent] /\ files' = files
    BY <1>5 DEF Fat!Delete, Fat!Put
  <2>2. Typed' /\ Busied'
    BY <1>2, <2>1, KindsAre, NoneBusier
  <2> QED
    BY <1>1, <1>2, <1>5, <2>2, DeleteSeen, CallIs
<1>6. CASE Fat!DeleteDir(c.path)
  <2>1. /\ emu' = [q \in VolPath |-> IF q # c.path /\ Fat!IsPrefix(c.path, q) THEN Fat!Absent ELSE emu[q]]
        /\ files' = files
    BY <1>6 DEF Fat!DeleteDir
  <2>2. emu' \in [VolPath -> Kinds] /\ \A q \in VolPath : emu'[q] = Fat!Busy => emu[q] = Fat!Busy
    BY <1>2, <2>1, KindsAre
  <2>3. Typed' /\ Busied'
    BY <1>2, <2>1, <2>2, NoneBusier
  <2> QED
    BY <1>1, <1>2, <1>6, <2>3, DeleteDirSeen, CallIs
<1>7. CASE c.op = "mv" /\ Fat!Rename(c.path, c.to)
  <2>1. PICK q \in Path : c.to = FAT_Escape(q)
    BY <1>7, VolPathType
  <2>2. Typed' /\ Busied'
    BY <1>7, RenameTyped
  <2>3. Nand!Rename(p, q)
    BY <1>1, <1>2, <1>7, <2>1, RenameSeen
  <2> QED
    BY <2>2, <2>3, CallIs
<1>8. CASE Fat!Refuse
  BY <1>3, <1>8, RefuseSeen, CallIs DEF Fat!Refuse
<1>9. CASE Fat!Size(c.path)
  <2>1. UNCHANGED <<emu, files>>
    BY <1>9 DEF Fat!Size
  <2> QED
    BY <1>1, <1>3, <1>9, <2>1, SizeSeen, CallIs
<1>10. CASE Fat!IsDir(c.path) /\ out' = Names(c.path) /\ UNCHANGED <<emu, files>>
  BY <1>1, <1>3, <1>10, ListSeen, CallIs
<1>11. CASE /\ Fat!Usage(c.path)
            /\ out' = <<Cardinality(FilesUnder(c.path)),
                        Cardinality({q \in Under(c.path) : emu[q].kind = "dir"}), UnitsUnder(c.path)>>
  <2>1. \A r \in VolPath : Len(emu[r].data) \in Nat
    BY <1>2, KindsAre
  <2>2. Nand!Usage(p)
    BY <1>1, <1>11, <2>1, UsageSeen
  <2>3. UNCHANGED <<emu, files>>
    BY <1>11 DEF Fat!Usage
  <2> QED
    BY <1>3, <2>2, <2>3, CallIs
<1> QED
  BY <1>4, <1>5, <1>6, <1>7, <1>8, <1>9, <1>10, <1>11 DEF Work

\* The first of the calls of a request.
LEMMA PerformSeen ==
  ASSUME NandInv, NEW calls \in Seq(CallSet), calls # <<>>, Perform(calls),
         Head(calls).op = "mv" => Head(calls).to \in VolPath, Safe(Head(calls))
  PROVE  Nand!Call /\ Typed' /\ Busied'
<1> DEFINE c == Head(calls)
<1>1. c \in CallSet
  OBVIOUS
<1>2. Work(c) \/ Fat!Refuse
  BY DEF Perform
<1> HIDE DEF c
<1> QED
  BY <1>1, <1>2, WorkSeen DEF c

\* A request that is taken.
LEMMA ReceiveSeen ==
  ASSUME NandInv, NEW op, NEW p, NEW q, NEW c \in CallSet, c.op \notin {"rmdir", "mv"},
         Receive(op, p, q, <<c>>)
  PROVE  Nand!Next /\ Typed' /\ Busied'
<1> DEFINE calls == <<c>>
<1>1. calls \in Seq(CallSet) /\ calls # <<>> /\ Head(calls) = c /\ Perform(calls) /\ faults' = faults
  BY DEF Receive
<1>2. Safe(c)
  BY DEF Safe
<1> HIDE DEF calls
<1>3. Nand!Call /\ Typed' /\ Busied'
  BY <1>1, <1>2, PerformSeen
<1> QED
  BY <1>1, <1>3 DEF Nand!Next

\* The requests that are calls of the FAT module.
LEMMA RequestSeen ==
  ASSUME NandInv, NEW p \in Path,
         \/ CreateDir(p) \/ CreateFile(p) \/ Delete(p) \/ ReadDir(p) \/ GetAttr(p)
         \/ Receive("look", p, <<>>, One("usage", p))
         \/ \E q \in Path : Rename(p, q)
  PROVE  Nand!Next /\ Typed' /\ Busied'
<1>1. ASSUME NEW op, NEW q, NEW kind \in {"mkdir", "mkfile", "list", "rm", "stat", "usage"},
             Receive(op, p, q, One(kind, p))
      PROVE  Nand!Next /\ Typed' /\ Busied'
  <2> DEFINE c == CallOf(kind, FAT_Escape(p), <<>>)
  <2>1. c \in CallSet /\ c.op = kind
    BY CallType DEF CallOf
  <2>2. Receive(op, p, q, <<c>>)
    BY <1>1 DEF One, Absolute
  <2> HIDE DEF c
  <2> QED
    BY <2>1, <2>2, ReceiveSeen
<1>2. ASSUME NEW q \in Path, Receive("rename", p, q, <<CallOf("probe", FAT_Escape(q), FAT_Escape(p))>>)
      PROVE  Nand!Next /\ Typed' /\ Busied'
  <2> DEFINE c == CallOf("probe", FAT_Escape(q), FAT_Escape(p))
  <2>1. c \in CallSet /\ c.op = "probe"
    BY CallType DEF CallOf
  <2> HIDE DEF c
  <2> QED
    BY <1>2, <2>1, ReceiveSeen DEF c
<1> QED
  BY <1>1, <1>2 DEF CreateDir, CreateFile, Delete, ReadDir, GetAttr, Rename, RenameCalls, Absolute

\* The request goes on.
LEMMA StepSeen ==
  ASSUME NandInv, Step
  PROVE  Nand!Next /\ Typed' /\ Busied'
<1> DEFINE c == Head(todo)
<1>1. /\ todo \in Seq(CallSet) /\ todo # <<>> /\ Perform(todo) /\ faults' = faults
      /\ Pending
  BY DEF NandInv, PathsInv, Shaped, Step
<1>2. Safe(c) /\ (c.op = "mv" => c.to \in VolPath)
  <2>1. CASE NothingOpen /\ todo \in Seq(Preparing)
    <3>1. c \in Preparing
      BY <1>1, <2>1
    <3> QED
      BY <2>1, <3>1 DEF Safe, Preparing
  <2>2. CASE IsRename(asked.path, asked.to) /\ todo \in Seq(Renaming(asked.path, asked.to))
    <3>1. c \in Renaming(asked.path, asked.to)
      BY <1>1, <2>2
    <3> HIDE DEF c
    <3> QED
      BY <2>2, <3>1, VolPathType DEF Safe, IsRename, Renaming
  <2> QED
    BY <1>1, <2>1, <2>2 DEF Pending
<1>3. Nand!Call /\ Typed' /\ Busied'
  BY <1>1, <1>2, PerformSeen
<1> QED
  BY <1>1, <1>3 DEF Nand!Next

\* A refusal, or a look at what is there.
LEMMA LookSeen ==
  ASSUME NandInv, NEW p \in Path, Fat!Size(FAT_Escape(p)) \/ Fat!Refuse
  PROVE  Nand!Call /\ Typed' /\ Busied'
<1>1. Typed' /\ Busied'
  <2>1. UNCHANGED <<emu, files>>
    BY DEF Fat!Size, Fat!Refuse
  <2> QED
    BY <2>1, NoneBusier DEF NandInv, Typed
<1> QED
  BY <1>1, SizeSeen, RefuseSeen, CallIs

\* The usage, which may be one that is made up.
LEMMA GetUsageSeen ==
  ASSUME NandInv, NEW p \in Path, NEW onDisc, GetUsage(p, onDisc)
  PROVE  Nand!Next /\ Typed' /\ Busied'
<1>1. CASE Receive("look", p, <<>>, One("usage", p))
  BY <1>1, RequestSeen
<1>2. CASE /\ Fat!Size(FAT_Escape(p)) \/ Fat!Refuse
           /\ faults' = faults
  BY <1>2, LookSeen DEF Nand!Next
<1> QED
  BY <1>1, <1>2 DEF GetUsage

\* SETMODE does nothing that a title sees.
LEMMA SetModeSeen ==
  ASSUME NandInv, NEW full, SetMode(full)
  PROVE  UNCHANGED <<Visible, VisibleFiles, out, faults>> /\ Typed' /\ Busied'
<1>1. UNCHANGED <<emu, files, out, faults>>
  BY DEF SetMode
<1>2. Typed' /\ Busied'
  BY <1>1, NoneBusier DEF NandInv, Typed
<1> QED
  BY <1>1, <1>2, SeenFiles

\* A file is opened.
LEMMA OpenRequestSeen ==
  ASSUME NandInv, NEW h \in Fil, NEW p \in Path, NEW access \in {{"R"}, {"W"}}, NEW isNMH2,
         Open(h, p, access, isNMH2)
  PROVE  Nand!Next /\ Typed' /\ Busied'
<1>1. CASE Fat!Refuse
  BY <1>1, LookSeen DEF Open, Nand!Next
<1>2. CASE Fat!Open(h, FAT_Escape(p), access, emu[FAT_Escape(p)].data)
  <2>1. Nand!Open(h, p, access, Visible[p].data) /\ Typed' /\ Busied'
    BY <1>2, OpenSeen
  <2> QED
    BY <2>1, CallIs DEF Open, Nand!Next
<1> QED
  BY <1>1, <1>2 DEF Open

\* A file is read, written or closed.
LEMMA FileCallSeen ==
  ASSUME NandInv, NEW h \in Fil, NEW x \in Stamp, FileCall(h, x)
  PROVE  Nand!Next /\ Typed' /\ Busied'
<1>1. files[h] # Fat!Closed /\ faults' = faults /\ MaxLen \in Nat /\ files[h].pos \in Nat
  BY PathsAssumption, HandlesAre DEF FileCall, NandInv
<1>2. ASSUME Nand!Call, Typed', Busied'
      PROVE  Nand!Next /\ Typed' /\ Busied'
  BY <1>1, <1>2 DEF Nand!Next
<1>3. ASSUME NEW n \in 1 .. MaxLen, Fat!Read(h, n)
      PROVE  Nand!Call /\ Typed' /\ Busied'
  BY <1>1, <1>3, ReadSeen, CallIs
<1>4. ASSUME NEW k \in 0 .. MaxLen - files[h].pos, Fat!Write(h, k, x)
      PROVE  Nand!Call /\ Typed' /\ Busied'
  <2>1. k \in Nat /\ k \in 0 .. MaxLen
    BY <1>1
  <2>2. Nand!Write(h, k, x) /\ Typed' /\ Busied'
    BY <1>1, <1>4, <2>1, WriteSeen
  <2> QED
    BY <2>1, <2>2, CallIs
<1>5. CASE Fat!Seek(h, 0)
  <2>1. /\ Nand!Seek(h, 0) /\ 0 \in 0 .. Len(VisibleFiles[h].data)
        /\ Typed' /\ Busied'
    BY <1>1, <1>5, SeekSeen
  <2>2. Nand!Call
    BY <2>1, CallIs, Zenon
  <2> QED
    BY <2>1, <2>2, <1>2
<1>6. CASE Fat!Close(h)
  <2>1. Nand!Close(h) /\ Typed' /\ Busied'
    BY <1>6, CloseSeen
  <2>2. Nand!Call
    BY <2>1, CallIs, Zenon
  <2> QED
    BY <2>1, <2>2, <1>2
<1>7. CASE Fat!Refuse
  <2>1. Typed' /\ Busied'
    BY <1>7, NoneBusier DEF Fat!Refuse, NandInv, Typed
  <2>2. Nand!Refuse
    BY <1>7, RefuseSeen
  <2>3. Nand!Call
    BY <2>2, CallIs, Zenon
  <2> QED
    BY <2>1, <2>3, <1>2
<1> QED
  BY <1>2, <1>3, <1>4, <1>5, <1>6, <1>7 DEF FileCall

\* A loader makes a folder or a file.
LEMMA LoaderSeen ==
  ASSUME NandInv, NEW p \in Path, NEW x \in {Fat!Directory, Fat!AFile(<<>>)}, LoaderCreates(p, x)
  PROVE  Nand!Next /\ Typed' /\ Busied'
<1> DEFINE q == FAT_Escape(p)
<1>1. Shaped /\ Typed /\ Busied /\ emu \in [VolPath -> Kinds] /\ q \in VolPath
  BY VolPathType DEF NandInv, PathsInv, Typed
<1>2. Fat!Create(q, x) /\ faults' = faults
  BY DEF LoaderCreates
<1>3. emu' = [emu EXCEPT ![q] = x] /\ files' = files
  BY <1>2 DEF Fat!Create, Fat!Put
<1>4. x \in Kinds /\ x # Fat!Busy
  BY KindsAre
<1>5. Typed' /\ Busied'
  <2> HIDE DEF q
  <2> QED
    BY <1>1, <1>3, <1>4, NoneBusier
<1>6. Nand!Create(p, x)
  BY <1>1, <1>2, CreateSeen
<1>7. Nand!Call
  BY <1>6, CallIs, SameObjects
<1> QED
  BY <1>2, <1>5, <1>7 DEF Nand!Next

\* The power fails in a call about one path, or between two calls.
LEMMA PowerCutSeen ==
  ASSUME NandInv, PowerCut
  PROVE  Nand!Next /\ Typed' /\ Busied'
<1> DEFINE c == Head(todo)
<1>1. Typed /\ Busied /\ Shaped /\ emu \in [VolPath -> Kinds] /\ todo \in Seq(CallSet)
  BY DEF NandInv, PathsInv, Shaped, Typed
<1>2. /\ faults' = faults + 1 /\ out' = <<>> /\ files' = [h \in Fil |-> Fat!Closed]
      /\ \E synced \in BOOLEAN :
         \E gone \in SUBSET (IF todo # <<>> /\ c.op = "rmdir" THEN Under(c.path) ELSE {}) :
           emu' = [q \in VolPath |->
             IF q \in gone THEN Fat!Absent
             ELSE IF emu[q] = Fat!Busy
             THEN Fat!AFile(IF synced THEN files[CHOOSE h \in Fil : files[h].path = q].data ELSE <<>>)
             ELSE emu[q]]
  BY DEF PowerCut
<1>3. PICK synced \in BOOLEAN,
           gone \in SUBSET (IF todo # <<>> /\ c.op = "rmdir" THEN Under(c.path) ELSE {}) :
        emu' = [q \in VolPath |->
          IF q \in gone THEN Fat!Absent
          ELSE IF emu[q] = Fat!Busy
          THEN Fat!AFile(IF synced THEN files[CHOOSE h \in Fil : files[h].path = q].data ELSE <<>>)
          ELSE emu[q]]
  BY <1>2
<1>4. PICK p \in Path : \A x \in Path : FAT_Escape(x) \in gone => Nand!IsPrefix(p, x)
  <2>1. CASE todo # <<>> /\ c.op = "rmdir"
    <3>1. c \in CallSet
      BY <1>1, <2>1
    <3>2. PICK p \in Path : c.path = FAT_Escape(p)
      BY <3>1, VolPathType DEF CallSet
    <3>3. \A x \in Path : FAT_Escape(x) \in gone => IsPrefix(c.path, FAT_Escape(x))
      BY <1>3, <2>1 DEF Under
    <3> QED
      BY <3>2, <3>3, SeenBelow
  <2>2. CASE ~(todo # <<>> /\ c.op = "rmdir")
    BY <1>3, <2>2, PathsAssumption
  <2> QED
    BY <2>1, <2>2
<1>5. ASSUME NEW q \in VolPath
      PROVE  /\ emu'[q] \in Kinds /\ emu'[q] # Fat!Busy
             /\ q \notin gone /\ emu[q] # Fat!Busy => emu'[q] = emu[q]
  <2> DEFINE d == IF synced THEN files[CHOOSE h \in Fil : files[h].path = q].data ELSE <<>>
  <2>1. emu[q] = Fat!Busy => d \in Seq(Stamp)
    <3> SUFFICES ASSUME emu[q] = Fat!Busy
                 PROVE  files[CHOOSE h \in Fil : files[h].path = q].data \in Seq(Stamp)
      OBVIOUS
    <3>1. \E h \in Fil : files[h].path = q
      BY <1>1 DEF Busied
    <3>2. (CHOOSE h \in Fil : files[h].path = q) \in Fil
      BY <3>1
    <3> QED
      BY <1>1, <3>2, HandlesAre
  <2>2. emu'[q] = IF q \in gone THEN Fat!Absent ELSE IF emu[q] = Fat!Busy THEN Fat!AFile(d) ELSE emu[q]
    BY <1>3
  <2> HIDE DEF d
  <2> QED
    BY <1>1, <2>1, <2>2, KindsAre
<1>6. Typed'
  <2>1. emu' \in [VolPath -> Kinds]
    <3>1. emu' = [q \in VolPath |-> emu'[q]]
      BY <1>3
    <3> QED
      BY <1>5, <3>1
  <2>2. Fat!Closed.pos <= Len(Fat!Closed.data)
    BY DEF Fat!Closed
  <2> QED
    BY <1>2, <2>1, <2>2 DEF Typed
<1>7. Busied'
  BY <1>5 DEF Busied
<1>8. Nand!Cut(p)
  <2>1. ASSUME NEW x \in Path, ~Nand!IsPrefix(p, x), Visible[x].kind # "busy"
        PROVE  Visible'[x] = Visible[x]
    <3>1. FAT_Escape(x) \in VolPath /\ FAT_Escape(x) \notin gone /\ emu[FAT_Escape(x)] # Fat!Busy
      BY <1>4, <2>1, VisibleIs, VolPathType DEF Fat!Busy
    <3> QED
      BY <1>5, <3>1, VisibleIs
  <2>2. VisibleFiles' = [h \in Fil |-> Nand!Closed]
    <3>1. [Fat!Closed EXCEPT !.path = Title(@)] = Fat!Closed
      BY DEF Fat!Closed, Title
    <3> QED
      BY <1>2, <3>1, SeenFiles, SameObjects
  <2> QED
    BY <1>2, <2>1, <2>2 DEF Nand!Cut
<1> QED
  BY <1>6, <1>7, <1>8 DEF Nand!Next

\* Every step is one of the promise, or nothing that a title sees.
LEMMA NandStep ==
  ASSUME NandInv, [PathsNext]_vars
  PROVE  NandInv' /\ [Nand!Next]_<<Visible, VisibleFiles, out, faults>>
<1>1. PathsInv'
  <2>1. CASE PathsNext
    BY <2>1, PathsStep DEF NandInv
  <2>2. CASE UNCHANGED vars
    BY <2>2 DEF NandInv, vars, PathsInv, Shaped, Writers, Pending, NothingOpen, IsRename, Unused
  <2> QED
    BY <2>1, <2>2
<1>2. CASE UNCHANGED vars
  <2>1. UNCHANGED <<emu, files, out, faults>>
    BY <1>2 DEF vars
  <2>2. Typed' /\ Busied'
    BY <2>1, NoneBusier DEF NandInv, Typed
  <2> QED
    BY <1>1, <2>1, <2>2, SeenFiles DEF NandInv
<1>3. ASSUME Request
      PROVE  /\ Nand!Next \/ UNCHANGED <<Visible, VisibleFiles, out, faults>>
             /\ Typed' /\ Busied'
  BY <1>3, RequestSeen, GetUsageSeen, OpenRequestSeen, FileCallSeen, SetModeSeen DEF Request
<1>4. CASE PathsNext
  BY <1>1, <1>3, <1>4, StepSeen, LoaderSeen, PowerCutSeen DEF PathsNext, NandInv
<1> QED
  BY <1>2, <1>4

\* At first there is nothing.
LEMMA NandInitially ==
  ASSUME PathsInit
  PROVE  NandInv /\ Nand!Init
<1>1. /\ emu = [q \in VolPath |-> Fat!Absent] /\ files = [h \in Fil |-> Fat!Closed]
      /\ out = <<>> /\ faults = 0
  BY DEF PathsInit, Fat!Init
<1>2. Typed
  <2>1. Fat!Closed.pos <= Len(Fat!Closed.data)
    BY DEF Fat!Closed
  <2> QED
    BY <1>1, <2>1, KindsAre DEF Typed
<1>3. Busied
  BY <1>1, KindsAre DEF Busied
<1>4. Visible = [p \in Path |-> Nand!Absent]
  BY <1>1, VolPathType, SameObjects DEF Visible
<1>5. VisibleFiles = [h \in Fil |-> Nand!Closed]
  <2>1. [Fat!Closed EXCEPT !.path = Title(@)] = Fat!Closed
    BY DEF Fat!Closed, Title
  <2> QED
    BY <1>1, <2>1, SeenFiles, SameObjects
<1> QED
  BY <1>1, <1>2, <1>3, <1>4, <1>5, PathsInitially DEF NandInv, Nand!Init

\* The emulated NAND is a file system of its own, in the names of the titles: what the
\* plugin makes of every request, in up to four calls with a loader and power cuts
\* between them, is what FatPromise says of one call after another on one tree whose
\* paths are not escaped.
THEOREM NandPromiseKept == PathsSpec => NandKeepsPromise
<1>1. PathsInit => NandInv /\ Nand!Init
  BY NandInitially
<1>2. NandInv /\ [PathsNext]_vars => NandInv' /\ [Nand!Next]_(Nand!vars)
  BY NandStep DEF Nand!vars
<1> QED
  BY <1>1, <1>2, PTL DEF PathsSpec, NandKeepsPromise, Nand!Spec

=============================================================================
