-------------------------- MODULE SimplNamesProofs --------------------------
(***************************************************************************)
(* Theorems about SimplNames, for any number of programs, names and        *)
(* process ids, killed anywhere and with name_attach failing at any fifo:  *)
(* TypeOK, UniqueName, FilesKept and RefusedMeansTaken.                    *)
(*                                                                         *)
(* The argument: a process id is one program's; each entry belongs to a    *)
(* program that has not removed it yet, and an attached program has both   *)
(* of its entries; who sweeps has seen an entry of a dead program; and     *)
(* while programs attach one at a time, no name has two receive fifos.     *)
(* All of it, but for the types and Made, is about a Plain host: there a   *)
(* search for a name in use finds the receive fifos of that name only.     *)
(***************************************************************************)
EXTENDS SimplNames, TLAPS

Dead == {"gone", "killed", "failed"}
Sweeping == {"sweep", "sweepReply", "check", "checkReply"}

\* A process id belongs to one program, and one that has started.
Ids ==
    /\ \A p \in Prog : pc[p] = "new" => pid[p] = {}
    /\ Plain => \A p, q \in Prog : pid[p] \cap pid[q] # {} => p = q

\* An entry was made by a program that has not yet removed it.
Made == \A e \in dir :
    /\ e.pid \in pid[e.by] /\ e.file \in {Want[e.by], ReplyFile[Want[e.by]]}
    /\ pc[e.by] # "gone"
    /\ pc[e.by] = "detachReply" => e.file = ReplyFile[Want[e.by]]

\* An attached program has its two entries, one that makes the second has the first.
Own == Plain =>
    /\ \A p \in Prog : pc[p] \in Attached \cup {"makeReply"} =>
           \E e \in dir : e.file = Want[p] /\ e.by = p
    /\ \A p \in Prog : pc[p] \in Attached =>
           \E e \in dir : e.file = ReplyFile[Want[p]] /\ e.by = p

\* Who sweeps has seen a process id of a program that is dead.
SawDead == Plain => \A p \in Prog : pc[p] \in Sweeping =>
    \A w \in saw[p] : \E q \in Prog : w.pid \in pid[q] /\ pc[q] \in Dead

\* One attach at a time: no name has two receive fifos, and the one that is
\* swept is the only one.
OneEach == Plain /\ host.serial =>
    /\ \A p, q \in Prog : pc[p] \in Attaching /\ pc[q] \in Attaching => p = q
    /\ \A e, f \in dir, r \in Prog : e.file = Want[r] /\ f.file = Want[r] => e = f
    /\ \A p \in Prog : pc[p] \in {"sweepReply", "make"} => \A e \in dir : e.file # Want[p]
    /\ \A p \in Prog : pc[p] = "sweep" => \A e \in dir : e.file = Want[p] =>
           [name |-> Want[p], file |-> e.file, pid |-> e.pid] \in saw[p]

IInv == TypeOK /\ Ids /\ Made /\ Own /\ SawDead /\ OneEach

USE DEF Attaching, Attached, Dead, Sweeping, Want

-----------------------------------------------------------------------------
(* Names.                                                                  *)

\* What a program calls itself is a name.
LEMMA WantIs == ASSUME TypeOK, NEW p \in Prog
                PROVE  Want[p] \in Name /\ Want[p] \in File /\ ReplyFile[Want[p]] \in File
<1>1. host.want \in [Prog -> Name]
  BY RunAssumption DEF TypeOK, HostRecord
<1>. QED  BY <1>1, NamesAssumption

\* On a plain host a search for a name in use finds the receive fifos of that name.
LEMMA Plainly == ASSUME TypeOK, Made, Plain, NEW p \in Prog, NEW e \in dir
                 PROVE  Behind(p, Want[p], e) = IF e.file = Want[p] THEN {e.pid} ELSE {}
<1>1. e.by \in Prog /\ e.file \in {Want[e.by], ReplyFile[Want[e.by]]}
  BY DEF TypeOK, Entry, Made
<1>2. Beyond[Want[p]][e.file] = {}
  BY <1>1 DEF Plain, NamesApart
<1>3. {} # {0}
  OBVIOUS
<1>. QED  BY <1>2, <1>3 DEF Behind

\* A new entry is one, with the parts it was given.
LEMMA NewEntry == ASSUME NEW f \in File, NEW i \in Pid, NEW p \in Prog, NEW o \in BOOLEAN
                  PROVE  LET e == [file |-> f, pid |-> i, by |-> p, open |-> o]
                         IN  e \in Entry /\ e.file = f /\ e.pid = i /\ e.by = p
BY DEF Entry

-----------------------------------------------------------------------------
(* The steps.                                                              *)

\* At first nobody has a name and the directory is empty.
LEMMA InitInv == Init => IInv
<1>. SUFFICES ASSUME Init PROVE IInv
  OBVIOUS
<1>1. TypeOK /\ Ids /\ Made
  BY RunAssumption DEF Init, TypeOK, Where, Ids, Made
<1>2. Own /\ SawDead /\ OneEach
  BY DEF Init, Own, SawDead, OneEach
<1>. QED  BY <1>1, <1>2 DEF IInv

\* A program that starts gets a process id nobody has.
LEMMA StartStep == ASSUME IInv, NEW p \in Prog, NEW i \in Pid, Start(p, i) PROVE IInv'
<1>. USE DEF IInv, Start, Goto, GiveUp
<1>0. Plain' <=> Plain
  BY DEF Plain, NamesApart
<1>a. pid[p] = {} /\ pc'[p] = "look" /\ pid'[p] = {i}
  BY DEF Ids, TypeOK
<1>b. \A r \in Prog \ {p} : pc'[r] = pc[r] /\ pid'[r] = pid[r]
  BY DEF TypeOK
<1>c. \A e \in dir : e.by \in Prog /\ e.by # p
  BY <1>a DEF Made, TypeOK, Entry
<1>1. TypeOK'
  BY <1>0 DEF TypeOK, Where, Entry, Found
<1>2. Ids'
  <2>1. \A r \in Prog : pc'[r] = "new" => pid'[r] = {}
    BY <1>a, <1>b DEF Ids
  <2>2. ASSUME Plain, NEW r \in Prog, NEW s \in Prog, pid'[r] \cap pid'[s] # {} PROVE r = s
    <3>1. \A t \in Prog : i \notin pid[t]
      BY <2>2 DEF Plain
    <3>. QED  BY <1>a, <1>b, <2>2, <3>1 DEF Ids
  <2>. QED  BY <1>0, <2>1, <2>2 DEF Ids
<1>3. Made'
  BY <1>b, <1>c DEF Made
<1>4. Own'
  BY <1>0, <1>a, <1>b, <1>c DEF Own
<1>5. SawDead'
  BY <1>0, <1>a, <1>b DEF SawDead
<1>6. OneEach'
  BY <1>0, <1>a, <1>b, <1>c DEF OneEach
<1>. QED  BY <1>1, <1>2, <1>3, <1>4, <1>5, <1>6

\* An orphan is seen, or the way is free, or the name is refused.
LEMMA LookStep == ASSUME IInv, NEW p \in Prog, Look(p) PROVE IInv'
<1>. USE DEF IInv, Look, Goto, GiveUp
<1>0. Plain' <=> Plain
  BY DEF Plain, NamesApart
<1>a. \A r \in Prog \ {p} : pc'[r] = pc[r] /\ saw'[r] = saw[r]
  BY DEF TypeOK
<1>b. Want[p] \in Name
  BY WantIs
<1>c. pc'[p] \in {"make", "refused", "sweep"}
  BY DEF TypeOK
<1>d. ASSUME pc'[p] = "sweep"
      PROVE  \E e \in dir : \E i \in Behind(p, Want[p], e) :
                Gone(i) /\ saw'[p] = {[name |-> Want[p], file |-> e.file, pid |-> e.pid]}
  BY <1>d DEF TypeOK, Matches
<1>1. TypeOK'
  <2>1. \A e \in dir : [name |-> Want[p], file |-> e.file, pid |-> e.pid] \in Found
    BY <1>b DEF TypeOK, Entry, Found
  <2>2. saw'[p] \subseteq Found
    BY <1>d, <2>1 DEF TypeOK, Matches
  <2>3. saw' \in [Prog -> SUBSET Found]
    BY <1>a, <2>2 DEF TypeOK
  <2>. QED  BY <2>3 DEF TypeOK, Where
<1>2. Ids'
  BY <1>0 DEF Ids, TypeOK
<1>3. Made'
  BY <1>0 DEF Made, TypeOK, Entry
<1>4. Own'
  BY <1>0, <1>a, <1>c DEF Own
<1>5. SawDead'
  <2>1. ASSUME Plain, pc'[p] = "sweep", NEW w \in saw'[p]
        PROVE  \E q \in Prog : w.pid \in pid[q] /\ pc[q] \in Dead
    <3>1. PICK e \in dir : \E i \in Behind(p, Want[p], e) : Gone(i) /\ w.pid = e.pid
      BY <1>d, <2>1
    <3>2. Gone(e.pid)
      BY <2>1, <3>1, Plainly
    <3>3. e.by \in Prog /\ e.pid \in pid[e.by]
      BY DEF Made, TypeOK, Entry
    <3>4. pc[e.by] # "new" /\ ~ Alive(e.by)
      BY <3>2, <3>3 DEF Ids, Gone, Runs
    <3>. QED  BY <3>1, <3>3, <3>4 DEF Alive
  <2>2. \A q \in Prog : pc[q] \in Dead => pc'[q] = pc[q]
    BY <1>a
  <2>. QED  BY <1>0, <1>a, <1>c, <2>1, <2>2 DEF SawDead
<1>6. OneEach'
  <2>. SUFFICES ASSUME Plain, host.serial PROVE OneEach'
    BY <1>0 DEF OneEach
  <2>1. ASSUME pc'[p] = "make", NEW e \in dir, e.file = Want[p] PROVE FALSE
    <3>1. Behind(p, Want[p], e) = {e.pid} /\ e \in Matches(p, Want[p])
      BY <2>1, Plainly DEF Matches
    <3>2. \A i : ~ Valid(i) => Gone(i)
      BY DEF Valid, Gone, Runs, Plain
    <3>. QED  BY <2>1, <3>1, <3>2 DEF TypeOK, Plain
  <2>2. ASSUME pc'[p] = "sweep", NEW e \in dir, e.file = Want[p]
        PROVE  [name |-> Want[p], file |-> e.file, pid |-> e.pid] \in saw'[p]
    <3>1. PICK f \in dir : /\ Behind(p, Want[p], f) # {}
                           /\ saw'[p] = {[name |-> Want[p], file |-> f.file, pid |-> f.pid]}
      BY <1>d, <2>2
    <3>2. f.file = Want[p]
      BY <3>1, Plainly
    <3>3. e = f
      BY <2>2, <3>2 DEF OneEach
    <3>. QED  BY <3>1, <3>3
  <2>. QED  BY <1>a, <1>c, <2>1, <2>2 DEF OneEach
<1>. QED  BY <1>1, <1>2, <1>3, <1>4, <1>5, <1>6

\* Who sweeps removes entries of the dead only.
LEMMA SweepStep == ASSUME IInv, NEW p \in Prog, Sweep(p) PROVE IInv'
<1>. USE DEF IInv, Sweep, Goto, GiveUp
<1>0. Plain' <=> Plain
  BY DEF Plain, NamesApart
<1>a. \A r \in Prog \ {p} : pc'[r] = pc[r] /\ saw'[r] = saw[r]
  BY DEF TypeOK
<1>b. dir' \subseteq dir
  OBVIOUS
<1>c. Plain => \A e \in dir \ dir' : e.by \in Prog /\ pc[e.by] \in Dead
  <2>. SUFFICES ASSUME Plain, NEW e \in dir \ dir' PROVE e.by \in Prog /\ pc[e.by] \in Dead
    OBVIOUS
  <2>1. PICK w \in saw[p] : e.pid = w.pid
    BY DEF Named
  <2>2. PICK q \in Prog : w.pid \in pid[q] /\ pc[q] \in Dead
    BY DEF SawDead
  <2>3. e.by \in Prog /\ e.pid \in pid[e.by]
    BY DEF Made, TypeOK, Entry
  <2>4. q = e.by
    BY <2>1, <2>2, <2>3 DEF Ids
  <2>. QED  BY <2>2, <2>3, <2>4
<1>d. (pc[p] = "sweep" /\ pc'[p] = "sweepReply") \/ (pc[p] = "check" /\ pc'[p] = "checkReply")
  BY DEF TypeOK
<1>1. TypeOK'
  BY <1>0 DEF TypeOK, Where, Entry, Found
<1>2. Ids'
  BY <1>0 DEF Ids, TypeOK
<1>3. Made'
  BY <1>0 DEF Made, TypeOK, Entry
<1>4. Own'
  <2>. SUFFICES ASSUME Plain PROVE Own'
    BY <1>0 DEF Own
  <2>2. ASSUME NEW r \in Prog, NEW f, pc[r] \notin Dead, \E e \in dir : e.file = f /\ e.by = r
        PROVE  \E e \in dir' : e.file = f /\ e.by = r
    BY <1>c, <2>2
  <2>3. \A r \in Prog : pc'[r] \in Attached => pc[r] \in Attached
    BY <1>a, <1>d
  <2>4. \A r \in Prog : pc'[r] \in Attached \cup {"makeReply"} => pc[r] \in Attached \cup {"makeReply"}
    BY <1>a, <1>d
  <2>5. ASSUME NEW r \in Prog, pc'[r] \in Attached
        PROVE  \E e \in dir' : e.file = ReplyFile[Want[r]] /\ e.by = r
    <3>1. pc[r] \notin Dead /\ \E e \in dir : e.file = ReplyFile[Want[r]] /\ e.by = r
      BY <2>3, <2>5 DEF Own
    <3>. QED  BY <2>2, <3>1
  <2>6. ASSUME NEW r \in Prog, pc'[r] \in Attached \cup {"makeReply"}
        PROVE  \E e \in dir' : e.file = Want[r] /\ e.by = r
    <3>1. pc[r] \notin Dead /\ \E e \in dir : e.file = Want[r] /\ e.by = r
      BY <2>4, <2>6 DEF Own
    <3>. QED  BY <2>2, <3>1
  <2>. QED  BY <2>5, <2>6 DEF Own
<1>5. SawDead'
  BY <1>0 DEF SawDead, TypeOK
<1>6. OneEach'
  <2>. SUFFICES ASSUME Plain, host.serial PROVE OneEach'
    BY <1>0 DEF OneEach
  <2>1. ASSUME pc[p] = "sweep", NEW e \in dir', e.file = Want[p] PROVE FALSE
    <3>1. e \in dir /\ [name |-> Want[p], file |-> e.file, pid |-> e.pid] \in saw[p]
      BY <1>b, <2>1 DEF OneEach
    <3>2. e \in Named(e.file, e.pid)
      BY <3>1 DEF Named
    <3>. QED  BY <2>1, <3>1, <3>2
  <2>3. \A r \in Prog : pc'[r] \in {"sweepReply", "make"} => \A e \in dir' : e.file # Want[r]
    BY <1>a, <1>b, <1>d, <2>1 DEF OneEach
  <2>4. \A r \in Prog : pc'[r] = "sweep" => \A e \in dir' : e.file = Want[r] =>
           [name |-> Want[r], file |-> e.file, pid |-> e.pid] \in saw'[r]
    BY <1>a, <1>b, <1>d DEF OneEach
  <2>5. \A r \in Prog : pc'[r] \in Attaching => pc[r] \in Attaching
    BY <1>a, <1>d
  <2>. QED  BY <1>b, <2>3, <2>4, <2>5 DEF OneEach
<1>. QED  BY <1>1, <1>2, <1>3, <1>4, <1>5, <1>6

\* So does the second half of the sweep.
LEMMA SweepReplyStep == ASSUME IInv, NEW p \in Prog, SweepReply(p) PROVE IInv'
<1>. USE DEF IInv, SweepReply, Goto, GiveUp
<1>0. Plain' <=> Plain
  BY DEF Plain, NamesApart
<1>a. \A r \in Prog \ {p} : pc'[r] = pc[r] /\ saw'[r] = saw[r]
  BY DEF TypeOK
<1>b. dir' \subseteq dir
  OBVIOUS
<1>c. Plain => \A e \in dir \ dir' : e.by \in Prog /\ pc[e.by] \in Dead
  <2>. SUFFICES ASSUME Plain, NEW e \in dir \ dir' PROVE e.by \in Prog /\ pc[e.by] \in Dead
    OBVIOUS
  <2>1. PICK w \in saw[p] : e.pid = w.pid
    BY DEF Named
  <2>2. PICK q \in Prog : w.pid \in pid[q] /\ pc[q] \in Dead
    BY DEF SawDead
  <2>3. e.by \in Prog /\ e.pid \in pid[e.by]
    BY DEF Made, TypeOK, Entry
  <2>4. q = e.by
    BY <2>1, <2>2, <2>3 DEF Ids
  <2>. QED  BY <2>2, <2>3, <2>4
<1>d. (pc[p] = "sweepReply" /\ pc'[p] = "make") \/ (pc[p] = "checkReply" /\ pc'[p] = "up")
  BY DEF TypeOK
<1>1. TypeOK'
  BY <1>0 DEF TypeOK, Where, Entry, Found
<1>2. Ids'
  BY <1>0 DEF Ids, TypeOK
<1>3. Made'
  BY <1>0 DEF Made, TypeOK, Entry
<1>4. Own'
  <2>. SUFFICES ASSUME Plain PROVE Own'
    BY <1>0 DEF Own
  <2>2. ASSUME NEW r \in Prog, NEW f, pc[r] \notin Dead, \E e \in dir : e.file = f /\ e.by = r
        PROVE  \E e \in dir' : e.file = f /\ e.by = r
    BY <1>c, <2>2
  <2>3. \A r \in Prog : pc'[r] \in Attached => pc[r] \in Attached
    BY <1>a, <1>d
  <2>4. \A r \in Prog : pc'[r] \in Attached \cup {"makeReply"} => pc[r] \in Attached \cup {"makeReply"}
    BY <1>a, <1>d
  <2>5. ASSUME NEW r \in Prog, pc'[r] \in Attached
        PROVE  \E e \in dir' : e.file = ReplyFile[Want[r]] /\ e.by = r
    <3>1. pc[r] \notin Dead /\ \E e \in dir : e.file = ReplyFile[Want[r]] /\ e.by = r
      BY <2>3, <2>5 DEF Own
    <3>. QED  BY <2>2, <3>1
  <2>6. ASSUME NEW r \in Prog, pc'[r] \in Attached \cup {"makeReply"}
        PROVE  \E e \in dir' : e.file = Want[r] /\ e.by = r
    <3>1. pc[r] \notin Dead /\ \E e \in dir : e.file = Want[r] /\ e.by = r
      BY <2>4, <2>6 DEF Own
    <3>. QED  BY <2>2, <3>1
  <2>. QED  BY <2>5, <2>6 DEF Own
<1>5. SawDead'
  BY <1>0 DEF SawDead, TypeOK
<1>6. OneEach'
  BY <1>0 DEF OneEach, TypeOK
<1>. QED  BY <1>1, <1>2, <1>3, <1>4, <1>5, <1>6

\* The receive fifo is the only one of its name, when attaches do not race.
LEMMA MakeReceiveStep == ASSUME IInv, NEW p \in Prog, MakeReceive(p) PROVE IInv'
<1>. USE DEF IInv, MakeReceive, Goto, GiveUp
<1>0. Plain' <=> Plain
  BY DEF Plain, NamesApart
<1>a. \A r \in Prog \ {p} : pc'[r] = pc[r]
  BY DEF TypeOK
<1>b. Want[p] \in Name /\ Want[p] \in File /\ ReplyFile[Want[p]] \in File
  BY WantIs
<1>c. PICK i \in Pid : pid[p] = {i}
  BY DEF TypeOK
<1>. DEFINE New(o) == [file |-> Want[p], pid |-> i, by |-> p, open |-> o]
<1>d. \/ pc'[p] = "makeReply" /\ dir' = dir \cup {New(TRUE)}
      \/ pc'[p] = "half" /\ (dir' = dir \/ dir' = dir \cup {New(FALSE)})
  BY <1>c DEF MakeFails, Make, TypeOK
<1>e. dir \subseteq dir' /\ \A e \in dir' \ dir : e = New(TRUE) \/ e = New(FALSE)
  BY <1>d
<1>g. ASSUME NEW o \in BOOLEAN
      PROVE  New(o) \in Entry /\ New(o).file = Want[p] /\ New(o).pid = i /\ New(o).by = p
  BY <1>b, NewEntry
<1>h. TRUE \in BOOLEAN /\ FALSE \in BOOLEAN
  OBVIOUS
<1>. HIDE DEF New
<1>f. \A e \in dir' \ dir : e \in Entry /\ e.file = Want[p] /\ e.pid = i /\ e.by = p
  BY <1>e, <1>g, <1>h
<1>j. \A e, f \in dir' \ dir : e = f
  BY <1>d
<1>k. pc[p] = "make" /\ pc'[p] \in {"makeReply", "half"}
  BY <1>d
<1>1. TypeOK'
  <2>1. dir' \subseteq Entry
    BY <1>f DEF TypeOK
  <2>. QED  BY <2>1 DEF TypeOK, Where
<1>2. Ids'
  BY <1>0 DEF Ids, TypeOK
<1>3. Made'
  <2>1. \A e \in dir : e.by \in Prog
    BY DEF TypeOK, Entry
  <2>2. \A e \in dir' \ dir : e.pid \in pid'[e.by]
    BY <1>c, <1>f
  <2>. QED  BY <1>a, <1>f, <1>k, <2>1, <2>2 DEF Made
<1>4. Own'
  <2>. SUFFICES ASSUME Plain PROVE Own'
    BY <1>0 DEF Own
  <2>1. ASSUME NEW r \in Prog, pc'[r] \in Attached \cup {"makeReply"}
        PROVE  \E e \in dir' : e.file = Want[r] /\ e.by = r
    <3>1. CASE r = p
      <4>1. New(TRUE) \in dir' /\ New(TRUE).file = Want[p] /\ New(TRUE).by = p
        BY <1>g, <1>h, <1>d, <2>1, <3>1
      <4>. QED  BY <3>1, <4>1
    <3>2. CASE r # p
      BY <1>a, <1>e, <2>1, <3>2 DEF Own
    <3>. QED  BY <3>1, <3>2
  <2>2. \A r \in Prog : pc'[r] \in Attached =>
           \E e \in dir' : e.file = ReplyFile[Want[r]] /\ e.by = r
    BY <1>a, <1>d, <1>e DEF Own
  <2>. QED  BY <2>1, <2>2 DEF Own
<1>5. SawDead'
  BY <1>0, <1>a, <1>d DEF SawDead
<1>6. OneEach'
  <2>. SUFFICES ASSUME Plain, host.serial PROVE OneEach'
    BY <1>0 DEF OneEach
  <2>1. \A r \in Prog \ {p} : pc'[r] \notin Attaching
    BY <1>a DEF OneEach
  <2>2. pc'[p] \notin {"look", "sweep", "sweepReply", "make"}
    BY <1>d
  <2>3. \A e \in dir : e.file # Want[p]
    BY DEF OneEach
  <2>4. \A e, f \in dir', r \in Prog : e.file = Want[r] /\ f.file = Want[r] => e = f
    BY <1>f, <1>j, <2>3 DEF OneEach
  <2>. QED  BY <2>1, <2>2, <2>4 DEF OneEach
<1>. QED  BY <1>1, <1>2, <1>3, <1>4, <1>5, <1>6

\* The reply fifo is no receive fifo.
LEMMA MakeReplyStep == ASSUME IInv, NEW p \in Prog, MakeReply(p) PROVE IInv'
<1>. USE DEF IInv, MakeReply, Goto, GiveUp
<1>0. Plain' <=> Plain
  BY DEF Plain, NamesApart
<1>a. \A r \in Prog \ {p} : pc'[r] = pc[r]
  BY DEF TypeOK
<1>b. Want[p] \in Name /\ Want[p] \in File /\ ReplyFile[Want[p]] \in File
  BY WantIs
<1>c. PICK i \in Pid : pid[p] = {i}
  BY DEF TypeOK
<1>. DEFINE New(o) == [file |-> ReplyFile[Want[p]], pid |-> i, by |-> p, open |-> o]
<1>d. \/ pc'[p] = "up" /\ dir' = dir \cup {New(TRUE)}
      \/ pc'[p] = "half" /\ (dir' = dir \/ dir' = dir \cup {New(FALSE)})
  BY <1>c DEF MakeFails, Make, TypeOK
<1>e. dir \subseteq dir' /\ \A e \in dir' \ dir : e = New(TRUE) \/ e = New(FALSE)
  BY <1>d
<1>g. ASSUME NEW o \in BOOLEAN
      PROVE  New(o) \in Entry /\ New(o).file = ReplyFile[Want[p]] /\ New(o).pid = i /\ New(o).by = p
  BY <1>b, NewEntry
<1>h. TRUE \in BOOLEAN /\ FALSE \in BOOLEAN
  OBVIOUS
<1>. HIDE DEF New
<1>f. \A e \in dir' \ dir : e \in Entry /\ e.file = ReplyFile[Want[p]] /\ e.pid = i /\ e.by = p
  BY <1>e, <1>g, <1>h
<1>j. \A e, f \in dir' \ dir : e = f
  BY <1>d
<1>k. pc[p] = "makeReply" /\ pc'[p] \in {"up", "half"}
  BY <1>d
<1>1. TypeOK'
  <2>1. dir' \subseteq Entry
    BY <1>f DEF TypeOK
  <2>. QED  BY <2>1 DEF TypeOK, Where
<1>2. Ids'
  BY <1>0 DEF Ids, TypeOK
<1>3. Made'
  <2>1. \A e \in dir : e.by \in Prog
    BY DEF TypeOK, Entry
  <2>2. \A e \in dir' \ dir : e.pid \in pid'[e.by]
    BY <1>c, <1>f
  <2>. QED  BY <1>a, <1>f, <1>k, <2>1, <2>2 DEF Made
<1>4. Own'
  <2>. SUFFICES ASSUME Plain PROVE Own'
    BY <1>0 DEF Own
  <2>1. \A r \in Prog : pc'[r] \in Attached \cup {"makeReply"} =>
           \E e \in dir' : e.file = Want[r] /\ e.by = r
    BY <1>a, <1>d, <1>e DEF Own
  <2>2. ASSUME NEW r \in Prog, pc'[r] \in Attached
        PROVE  \E e \in dir' : e.file = ReplyFile[Want[r]] /\ e.by = r
    <3>1. CASE r = p
      <4>1. New(TRUE) \in dir' /\ New(TRUE).file = ReplyFile[Want[p]] /\ New(TRUE).by = p
        BY <1>g, <1>h, <1>d, <2>2, <3>1
      <4>. QED  BY <3>1, <4>1
    <3>2. CASE r # p
      BY <1>a, <1>e, <2>2, <3>2 DEF Own
    <3>. QED  BY <3>1, <3>2
  <2>. QED  BY <2>1, <2>2 DEF Own
<1>5. SawDead'
  BY <1>0, <1>a, <1>d DEF SawDead
<1>6. OneEach'
  <2>. SUFFICES ASSUME Plain, host.serial PROVE OneEach'
    BY <1>0 DEF OneEach
  <2>1. \A r \in Prog : pc'[r] \notin Attaching
    BY <1>a, <1>d DEF OneEach
  <2>2. \A e \in dir', r \in Prog : e.file = Want[r] => e \in dir
    BY <1>f DEF Plain, NamesApart
  <2>. QED  BY <2>1, <2>2 DEF OneEach
<1>. QED  BY <1>1, <1>2, <1>3, <1>4, <1>5, <1>6

\* A program without fifos tries again.
LEMMA RetryStep == ASSUME IInv, NEW p \in Prog, Retry(p) PROVE IInv'
<1>. USE DEF IInv, Retry, Goto, GiveUp
<1>0. Plain' <=> Plain
  BY DEF Plain, NamesApart
<1>1. TypeOK'
  BY <1>0 DEF TypeOK, Where, Entry, Found
<1>2. Ids'
  BY <1>0 DEF Ids, TypeOK
<1>3. Made'
  BY <1>0 DEF Made, TypeOK, Entry
<1>4. Own'
  BY <1>0 DEF Own, TypeOK, Entry
<1>5. SawDead'
  BY <1>0 DEF SawDead, TypeOK
<1>6. OneEach'
  BY <1>0 DEF OneEach, TypeOK
<1>. QED  BY <1>1, <1>2, <1>3, <1>4, <1>5, <1>6

\* A look-up reads.
LEMMA LocateStep == ASSUME IInv, NEW p \in Prog, NEW n \in Name, Locate(p, n) PROVE IInv'
<1>. USE DEF IInv, Locate, Goto, GiveUp
<1>0. Plain' <=> Plain
  BY DEF Plain, NamesApart
<1>1. TypeOK'
  <2>1. \A e \in dir : [name |-> n, file |-> e.file, pid |-> e.pid] \in Found
    BY DEF TypeOK, Entry, Found
  <2>. QED  BY <2>1 DEF TypeOK, Where, Matches
<1>2. Ids'
  BY <1>0 DEF Ids, TypeOK
<1>3. Made'
  BY <1>0 DEF Made, TypeOK, Entry
<1>4. Own'
  BY <1>0 DEF Own, TypeOK, Entry
<1>5. SawDead'
  BY <1>0 DEF SawDead, TypeOK
<1>6. OneEach'
  BY <1>0 DEF OneEach, TypeOK
<1>. QED  BY <1>1, <1>2, <1>3, <1>4, <1>5, <1>6

\* The second look of a look-up.
LEMMA LocateStatStep == ASSUME IInv, NEW p \in Prog, LocateStat(p) PROVE IInv'
<1>. USE DEF IInv, LocateStat, Goto, GiveUp
<1>0. Plain' <=> Plain
  BY DEF Plain, NamesApart
<1>1. TypeOK'
  BY <1>0 DEF TypeOK, Where, Entry, Found
<1>2. Ids'
  BY <1>0 DEF Ids, TypeOK
<1>3. Made'
  BY <1>0 DEF Made, TypeOK, Entry
<1>4. Own'
  BY <1>0 DEF Own, TypeOK, Entry
<1>5. SawDead'
  BY <1>0 DEF SawDead, TypeOK
<1>6. OneEach'
  BY <1>0 DEF OneEach, TypeOK
<1>. QED  BY <1>1, <1>2, <1>3, <1>4, <1>5, <1>6

\* The open of a look-up that succeeds.
LEMMA LocateOpenedStep == ASSUME IInv, NEW p \in Prog, LocateOpened(p) PROVE IInv'
<1>. USE DEF IInv, LocateOpened, Goto, GiveUp
<1>0. Plain' <=> Plain
  BY DEF Plain, NamesApart
<1>1. TypeOK'
  BY <1>0 DEF TypeOK, Where, Entry, Found
<1>2. Ids'
  BY <1>0 DEF Ids, TypeOK
<1>3. Made'
  BY <1>0 DEF Made, TypeOK, Entry
<1>4. Own'
  BY <1>0 DEF Own, TypeOK, Entry
<1>5. SawDead'
  BY <1>0 DEF SawDead, TypeOK
<1>6. OneEach'
  BY <1>0 DEF OneEach, TypeOK
<1>. QED  BY <1>1, <1>2, <1>3, <1>4, <1>5, <1>6

\* The open of a look-up that fails.
LEMMA LocateFailedStep == ASSUME IInv, NEW p \in Prog, LocateFailed(p) PROVE IInv'
<1>. USE DEF IInv, LocateFailed, Goto, GiveUp
<1>0. Plain' <=> Plain
  BY DEF Plain, NamesApart
<1>1. TypeOK'
  BY <1>0 DEF TypeOK, Where, Entry, Found
<1>2. Ids'
  BY <1>0 DEF Ids, TypeOK
<1>3. Made'
  BY <1>0 DEF Made, TypeOK, Entry
<1>4. Own'
  BY <1>0 DEF Own, TypeOK, Entry
<1>5. SawDead'
  BY <1>0 DEF SawDead, TypeOK
<1>6. OneEach'
  BY <1>0 DEF OneEach, TypeOK
<1>. QED  BY <1>1, <1>2, <1>3, <1>4, <1>5, <1>6

\* Who checks another process sweeps only when it is dead.
LEMMA CheckStep == ASSUME IInv, NEW p \in Prog, NEW q \in Prog, Check(p, q) PROVE IInv'
<1>. USE DEF IInv, Check, Goto, GiveUp
<1>0. Plain' <=> Plain
  BY DEF Plain, NamesApart
<1>1. TypeOK'
  <2>1. Want[q] \in Name /\ Want[q] \in File /\ pid[q] \subseteq Pid
    BY WantIs DEF TypeOK
  <2>2. \A i \in Pid : [name |-> Want[q], file |-> Want[q], pid |-> i] \in Found
    BY <2>1 DEF Found
  <2>. QED  BY <2>1, <2>2 DEF TypeOK, Where
<1>2. Ids'
  BY <1>0 DEF Ids, TypeOK
<1>3. Made'
  BY <1>0 DEF Made, TypeOK, Entry
<1>4. Own'
  BY <1>0 DEF Own, TypeOK, Entry
<1>5. SawDead'
  BY <1>0 DEF SawDead, TypeOK
<1>6. OneEach'
  BY <1>0 DEF OneEach, TypeOK
<1>. QED  BY <1>1, <1>2, <1>3, <1>4, <1>5, <1>6

\* The clean up begins.
LEMMA DetachStep == ASSUME IInv, NEW p \in Prog, Detach(p) PROVE IInv'
<1>. USE DEF IInv, Detach, Goto, GiveUp
<1>0. Plain' <=> Plain
  BY DEF Plain, NamesApart
<1>1. TypeOK'
  BY <1>0 DEF TypeOK, Where, Entry, Found
<1>2. Ids'
  BY <1>0 DEF Ids, TypeOK
<1>3. Made'
  BY <1>0 DEF Made, TypeOK, Entry
<1>4. Own'
  BY <1>0 DEF Own, TypeOK, Entry
<1>5. SawDead'
  BY <1>0 DEF SawDead, TypeOK
<1>6. OneEach'
  BY <1>0 DEF OneEach, TypeOK
<1>. QED  BY <1>1, <1>2, <1>3, <1>4, <1>5, <1>6

\* The clean up removes the receive fifo of this program only.
LEMMA DetachReceiveStep == ASSUME IInv, NEW p \in Prog, DetachReceive(p) PROVE IInv'
<1>. USE DEF IInv, DetachReceive, Goto, GiveUp
<1>0. Plain' <=> Plain
  BY DEF Plain, NamesApart
<1>a. \A r \in Prog \ {p} : pc'[r] = pc[r]
  BY DEF TypeOK
<1>b. dir' \subseteq dir
  OBVIOUS
<1>c. Plain => \A e \in dir \ dir' : e.by = p
  <2>. SUFFICES ASSUME Plain, NEW e \in dir \ dir' PROVE e.by = p
    OBVIOUS
  <2>1. PICK j \in pid[p] : e.pid = j
    BY DEF Named
  <2>2. e.by \in Prog /\ e.pid \in pid[e.by]
    BY DEF Made, TypeOK, Entry
  <2>. QED  BY <2>1, <2>2 DEF Ids
<1>d. pc[p] = "detach" /\ pc'[p] = "detachReply"
  BY DEF TypeOK
<1>e. \A e \in dir' : e.by = p => e \notin UNION {Named(Want[p], j) : j \in pid[p]} /\ e.pid \in pid[p]
  BY <1>b DEF Made
<1>1. TypeOK'
  BY <1>0 DEF TypeOK, Where, Entry, Found
<1>2. Ids'
  BY <1>0 DEF Ids, TypeOK
<1>3. Made'
  <2>1. \A e \in dir' : e.by = p => e.file # Want[p]
    BY <1>b, <1>e DEF Named
  <2>2. \A e \in dir : e.by \in Prog
    BY DEF TypeOK, Entry
  <2>. QED  BY <1>a, <1>b, <1>d, <2>1, <2>2 DEF Made
<1>4. Own'
  <2>. SUFFICES ASSUME Plain PROVE Own'
    BY <1>0 DEF Own
  <2>2. ASSUME NEW r \in Prog, NEW f, r # p, \E e \in dir : e.file = f /\ e.by = r
        PROVE  \E e \in dir' : e.file = f /\ e.by = r
    BY <1>c, <2>2
  <2>3. \A r \in Prog : pc'[r] \in Attached \cup {"makeReply"} => r # p /\ pc'[r] = pc[r]
    BY <1>a, <1>d
  <2>4. \A r \in Prog : pc'[r] \in Attached => \E e \in dir' : e.file = ReplyFile[Want[r]] /\ e.by = r
    BY <2>2, <2>3 DEF Own
  <2>5. \A r \in Prog : pc'[r] \in Attached \cup {"makeReply"} => \E e \in dir' : e.file = Want[r] /\ e.by = r
    BY <2>2, <2>3 DEF Own
  <2>. QED  BY <2>4, <2>5 DEF Own
<1>5. SawDead'
  BY <1>0 DEF SawDead, TypeOK
<1>6. OneEach'
  BY <1>0 DEF OneEach, TypeOK
<1>. QED  BY <1>1, <1>2, <1>3, <1>4, <1>5, <1>6

\* The clean up leaves nothing.
LEMMA DetachReplyStep == ASSUME IInv, NEW p \in Prog, DetachReply(p) PROVE IInv'
<1>. USE DEF IInv, DetachReply, Goto, GiveUp
<1>0. Plain' <=> Plain
  BY DEF Plain, NamesApart
<1>a. \A r \in Prog \ {p} : pc'[r] = pc[r]
  BY DEF TypeOK
<1>b. dir' \subseteq dir
  OBVIOUS
<1>c. Plain => \A e \in dir \ dir' : e.by = p
  <2>. SUFFICES ASSUME Plain, NEW e \in dir \ dir' PROVE e.by = p
    OBVIOUS
  <2>1. PICK j \in pid[p] : e.pid = j
    BY DEF Named
  <2>2. e.by \in Prog /\ e.pid \in pid[e.by]
    BY DEF Made, TypeOK, Entry
  <2>. QED  BY <2>1, <2>2 DEF Ids
<1>d. pc[p] = "detachReply" /\ pc'[p] = "gone"
  BY DEF TypeOK
<1>e. \A e \in dir' : e.by = p => e \notin UNION {Named(ReplyFile[Want[p]], j) : j \in pid[p]} /\ e.pid \in pid[p]
  BY <1>b DEF Made
<1>1. TypeOK'
  BY <1>0 DEF TypeOK, Where, Entry, Found
<1>2. Ids'
  BY <1>0 DEF Ids, TypeOK
<1>3. Made'
  <2>1. \A e \in dir' : e.by = p => e.file # ReplyFile[Want[p]]
    BY <1>b, <1>e DEF Named
  <2>2. \A e \in dir' : e.by # p
    BY <1>b, <1>d, <2>1 DEF Made
  <2>3. \A e \in dir : e.by \in Prog
    BY DEF TypeOK, Entry
  <2>. QED  BY <1>a, <1>b, <2>2, <2>3 DEF Made
<1>4. Own'
  <2>. SUFFICES ASSUME Plain PROVE Own'
    BY <1>0 DEF Own
  <2>2. ASSUME NEW r \in Prog, NEW f, r # p, \E e \in dir : e.file = f /\ e.by = r
        PROVE  \E e \in dir' : e.file = f /\ e.by = r
    BY <1>c, <2>2
  <2>3. \A r \in Prog : pc'[r] \in Attached \cup {"makeReply"} => r # p /\ pc'[r] = pc[r]
    BY <1>a, <1>d
  <2>4. \A r \in Prog : pc'[r] \in Attached => \E e \in dir' : e.file = ReplyFile[Want[r]] /\ e.by = r
    BY <2>2, <2>3 DEF Own
  <2>5. \A r \in Prog : pc'[r] \in Attached \cup {"makeReply"} => \E e \in dir' : e.file = Want[r] /\ e.by = r
    BY <2>2, <2>3 DEF Own
  <2>. QED  BY <2>4, <2>5 DEF Own
<1>5. SawDead'
  BY <1>0 DEF SawDead, TypeOK
<1>6. OneEach'
  BY <1>0 DEF OneEach, TypeOK
<1>. QED  BY <1>1, <1>2, <1>3, <1>4, <1>5, <1>6

\* A program whose attach was refused has no fifos when attaches are plain.
LEMMA QuitStep == ASSUME IInv, NEW p \in Prog, Quit(p) PROVE IInv'
<1>. USE DEF IInv, Quit, Goto, GiveUp
<1>0. Plain' <=> Plain
  BY DEF Plain, NamesApart
<1>1. TypeOK'
  BY <1>0 DEF TypeOK, Where, Entry, Found
<1>2. Ids'
  BY <1>0 DEF Ids, TypeOK
<1>3. Made'
  BY <1>0 DEF Made, TypeOK, Entry
<1>4. Own'
  BY <1>0 DEF Own, TypeOK, Entry
<1>5. SawDead'
  BY <1>0 DEF SawDead, TypeOK
<1>6. OneEach'
  BY <1>0 DEF OneEach, TypeOK
<1>. QED  BY <1>1, <1>2, <1>3, <1>4, <1>5, <1>6

\* A killed program leaves what it has.
LEMMA KillStep == ASSUME IInv, NEW p \in Prog, Kill(p) PROVE IInv'
<1>. USE DEF IInv, Kill, Goto, GiveUp
<1>0. Plain' <=> Plain
  BY DEF Plain, NamesApart
<1>1. TypeOK'
  <2>1. \A r \in Prog : pc'[r] # "new" => pc[r] # "new"
    BY DEF TypeOK, Alive
  <2>. QED  BY <2>1 DEF TypeOK, Where
<1>2. Ids'
  BY <1>0 DEF Ids, TypeOK
<1>3. Made'
  BY <1>0 DEF Made, TypeOK, Entry
<1>4. Own'
  BY <1>0 DEF Own, TypeOK, Entry
<1>5. SawDead'
  BY <1>0 DEF SawDead, TypeOK
<1>6. OneEach'
  BY <1>0 DEF OneEach, TypeOK
<1>. QED  BY <1>1, <1>2, <1>3, <1>4, <1>5, <1>6

\* One step, the alternatives of Next spelled out.
StepOf(p) ==
    \/ Look(p) \/ Sweep(p) \/ SweepReply(p) \/ MakeReceive(p) \/ MakeReply(p)
    \/ Retry(p) \/ LocateStat(p) \/ LocateOpened(p) \/ LocateFailed(p)
    \/ Detach(p) \/ DetachReceive(p) \/ DetachReply(p) \/ Quit(p) \/ Kill(p)
    \/ \E i \in Pid : Start(p, i)
    \/ \E n \in Name : Locate(p, n)
    \/ \E q \in Prog : Check(p, q)

\* No step ruins a type, whatever the names are.
LEMMA TypesStep == ASSUME TypeOK, NEW p \in Prog, StepOf(p) PROVE TypeOK'
<1>a. Want[p] \in Name /\ Want[p] \in File /\ ReplyFile[Want[p]] \in File
  BY WantIs
<1>b. \A n \in Name : \A e \in dir : [name |-> n, file |-> e.file, pid |-> e.pid] \in Found
  BY DEF TypeOK, Entry, Found
<1>. USE DEF TypeOK, Where, Entry, Goto, GiveUp
<1>1. CASE Look(p)
  BY <1>1, <1>a, <1>b DEF Look, Matches
<1>2. CASE Sweep(p)
  BY <1>2, <1>a DEF Sweep
<1>3. CASE SweepReply(p)
  BY <1>3, <1>a DEF SweepReply
<1>4. CASE MakeReceive(p)
  <2>1. ASSUME NEW f \in File, NEW o \in BOOLEAN, Make(p, f, o) PROVE dir' \subseteq dir \cup Entry
    BY <2>1, NewEntry DEF Make
  <2>2. TRUE \in BOOLEAN /\ FALSE \in BOOLEAN
    OBVIOUS
  <2>. HIDE DEF TypeOK, Where, Entry, Goto
  <2>3. dir' \subseteq dir \cup Entry
    BY <1>4, <1>a, <2>1, <2>2 DEF MakeReceive, MakeFails
  <2>4. UNCHANGED <<host, pid, saw>> /\ \E w \in Where : Goto(p, w)
    BY <1>4 DEF MakeReceive, Where
  <2>5. dir' \subseteq Entry
    BY <2>3 DEF TypeOK
  <2>6. pc[p] # "new"
    BY <1>4 DEF MakeReceive
  <2>. QED  BY <2>4, <2>5, <2>6 DEF TypeOK, Goto
<1>5. CASE MakeReply(p)
  <2>1. ASSUME NEW f \in File, NEW o \in BOOLEAN, Make(p, f, o) PROVE dir' \subseteq dir \cup Entry
    BY <2>1, NewEntry DEF Make
  <2>2. TRUE \in BOOLEAN /\ FALSE \in BOOLEAN
    OBVIOUS
  <2>. HIDE DEF TypeOK, Where, Entry, Goto
  <2>3. dir' \subseteq dir \cup Entry
    BY <1>5, <1>a, <2>1, <2>2 DEF MakeReply, MakeFails
  <2>4. UNCHANGED <<host, pid, saw>> /\ \E w \in Where : Goto(p, w)
    BY <1>5 DEF MakeReply, Where
  <2>5. dir' \subseteq Entry
    BY <2>3 DEF TypeOK
  <2>6. pc[p] # "new"
    BY <1>5 DEF MakeReply
  <2>. QED  BY <2>4, <2>5, <2>6 DEF TypeOK, Goto
<1>6. CASE Retry(p)
  BY <1>6, <1>a DEF Retry
<1>7. CASE LocateStat(p)
  BY <1>7, <1>a DEF LocateStat
<1>8. CASE LocateFailed(p)
  BY <1>8, <1>a DEF LocateFailed
<1>9. CASE Detach(p)
  BY <1>9, <1>a DEF Detach
<1>10. CASE DetachReceive(p)
  BY <1>10, <1>a DEF DetachReceive
<1>11. CASE DetachReply(p)
  BY <1>11, <1>a DEF DetachReply
<1>12. CASE Quit(p)
  BY <1>12, <1>a DEF Quit
<1>13. CASE Kill(p)
  <2>1. \A r \in Prog : pc'[r] # "new" => pc[r] # "new"
    BY <1>13 DEF Kill, Alive
  <2>. QED  BY <1>13, <2>1 DEF Kill
<1>14. ASSUME NEW i \in Pid, Start(p, i) PROVE TypeOK'
  <2>1. \A r \in Prog : IF r = p THEN pid'[r] = {i} ELSE pid'[r] = pid[r] /\ pc'[r] = pc[r]
    BY <1>14 DEF Start
  <2>2. \A r \in Prog : pc'[r] # "new" => \E j \in Pid : pid'[r] = {j}
    BY <2>1
  <2>. QED  BY <1>14, <2>2 DEF Start
<1>15. ASSUME NEW n \in Name, Locate(p, n) PROVE TypeOK'
  BY <1>15, <1>b DEF Locate, Matches
<1>16. CASE LocateOpened(p)
  BY <1>16 DEF LocateOpened
<1>17. ASSUME NEW q \in Prog, Check(p, q) PROVE TypeOK'
  <2>1. Want[q] \in Name /\ Want[q] \in File /\ pid[q] \subseteq Pid
    BY WantIs
  <2>2. \A i \in Pid : [name |-> Want[q], file |-> Want[q], pid |-> i] \in Found
    BY <2>1 DEF Found
  <2>. QED  BY <1>17, <2>1, <2>2 DEF Check
<1>. QED
  BY <1>1, <1>2, <1>3, <1>4, <1>5, <1>6, <1>7, <1>8, <1>9,
     <1>10, <1>11, <1>12, <1>13, <1>14, <1>15, <1>16, <1>17 DEF StepOf

\* The variables keep their types, whatever the names are, also when attaches race and
\* process ids come back.
THEOREM TypeCorrect == Spec => []TypeOK
<1>1. Init => TypeOK
  BY RunAssumption DEF Init, TypeOK, Where
<1>2. TypeOK /\ [Next]_vars => TypeOK'
  <2>1. ASSUME TypeOK, Next PROVE TypeOK'
    <3>1. PICK p \in Prog : StepOf(p)
      BY <2>1, Zenon DEF Next, StepOf
    <3>. QED  BY <2>1, <3>1, TypesStep
  <2>2. ASSUME TypeOK, UNCHANGED vars PROVE TypeOK'
    BY <2>2 DEF vars, TypeOK
  <2>. QED  BY <2>1, <2>2
<1>. QED  BY <1>1, <1>2, PTL DEF Spec


\* Every step of the programs keeps the invariant.
LEMMA IInvStep == IInv /\ [Next]_vars => IInv'
<1>1. ASSUME IInv, Next PROVE IInv'
  <2>. USE <1>1
  <2>1. PICK p \in Prog : StepOf(p)
    BY Zenon DEF Next, StepOf
  <2>2. CASE Look(p) \/ Sweep(p) \/ SweepReply(p) \/ MakeReceive(p) \/ MakeReply(p)
    BY <2>2, LookStep, SweepStep, SweepReplyStep, MakeReceiveStep, MakeReplyStep
  <2>3. CASE Retry(p) \/ LocateStat(p) \/ LocateOpened(p) \/ LocateFailed(p)
    BY <2>3, RetryStep, LocateStatStep, LocateOpenedStep, LocateFailedStep
  <2>4. CASE Detach(p) \/ DetachReceive(p) \/ DetachReply(p) \/ Quit(p) \/ Kill(p)
    BY <2>4, DetachStep, DetachReceiveStep, DetachReplyStep, QuitStep, KillStep
  <2>5. CASE \E i \in Pid : Start(p, i)
    BY <2>5, StartStep
  <2>6. CASE \E n \in Name : Locate(p, n)
    BY <2>6, LocateStep
  <2>7. CASE \E q \in Prog : Check(p, q)
    BY <2>7, CheckStep
  <2>. QED  BY <2>1, <2>2, <2>3, <2>4, <2>5, <2>6, <2>7 DEF StepOf
<1>2. ASSUME IInv, UNCHANGED vars PROVE IInv'
  <2>1. Plain' <=> Plain
    BY <1>2 DEF vars, Plain, NamesApart
  <2>2. TypeOK' /\ Ids' /\ Made'
    BY <1>2, <2>1 DEF IInv, vars, TypeOK, Ids, Made
  <2>3. Own' /\ SawDead' /\ OneEach'
    BY <1>2, <2>1 DEF IInv, vars, Own, SawDead, OneEach
  <2>. QED  BY <2>2, <2>3 DEF IInv
<1>. QED  BY <1>1, <1>2

-----------------------------------------------------------------------------
(* The theorems.                                                           *)

\* The invariant of FIFO_PATH, whoever is killed and however the host is run.
THEOREM Invariance == Spec => []IInv
<1>1. IInv /\ [Next]_vars => IInv'
  BY IInvStep
<1>. QED  BY <1>1, InitInv, PTL DEF Spec

\* Programs that call name_attach one after the other never have one name,
\* whatever orphans the killed ones left in the directory.
THEOREM UniqueNameHolds == Spec => []UniqueName
<1>1. IInv => UniqueName
  <2>. SUFFICES ASSUME IInv, Plain, host.serial, NEW p \in Prog, NEW q \in Prog,
                       pc[p] \in Attached, pc[q] \in Attached, Want[p] = Want[q]
                PROVE  p = q
    BY DEF UniqueName, NameIsUnique
  <2>1. PICK e \in dir : e.file = Want[p] /\ e.by = p
    BY DEF IInv, Own
  <2>2. PICK f \in dir : f.file = Want[q] /\ f.by = q
    BY DEF IInv, Own
  <2>4. e = f
    BY <2>1, <2>2 DEF IInv, OneEach
  <2>. QED  BY <2>1, <2>2, <2>4
<1>. QED  BY <1>1, Invariance, PTL

\* No sweep, however late, takes a fifo of an attached program away, and
\* name_detach leaves none behind, also when attaches race.
THEOREM FilesKeptHolds == Spec => []FilesKept
<1>1. IInv => FilesKept
  <2>. SUFFICES ASSUME IInv PROVE FilesKept
    OBVIOUS
  <2>1. ASSUME Plain, NEW p \in Prog, pc[p] \in Attached, NEW f \in {Want[p], ReplyFile[Want[p]]}
        PROVE  \E e \in dir : e.file = f /\ e.by = p
    BY <2>1 DEF IInv, Own
  <2>. QED  BY <2>1 DEF FilesKept, IInv, Made
<1>. QED  BY <1>1, Invariance, PTL

\* name_attach says that a name is not available only when another program that runs
\* has it, or the program's own receive fifo is there, also when attaches race.
THEOREM RefusedMeansTakenHolds == Spec => RefusedMeansTaken
<1>. DEFINE Taken(p) == \/ \E q \in Prog \ {p} : Alive(q) /\ Want[q] = Want[p]
                        \/ \E e \in dir : e.by = p /\ e.file = Want[p]
            Honest == \A p \in Prog : pc[p] \in Attaching /\ pc'[p] = "refused" /\ Plain => Taken(p)
<1>1. ASSUME IInv, [Next]_vars PROVE Honest
  <2>. SUFFICES ASSUME Plain, NEW p \in Prog, pc[p] \in Attaching, pc'[p] = "refused"
                PROVE  Taken(p)
    OBVIOUS
  <2>. USE <1>1 DEF IInv
  <2>1. Look(p)
    <3>1. pc'[p] # pc[p]
      BY DEF Attaching
    <3>2. PICK q \in Prog : StepOf(q)
      BY <3>1, Zenon DEF Next, StepOf, vars
    <3>3. q = p
      BY <3>1, <3>2 DEF TypeOK, StepOf, Start, Look, Sweep, SweepReply, MakeReceive, MakeReply,
           Retry, Locate, LocateStat, LocateOpened, LocateFailed, Check, Detach, DetachReceive,
           DetachReply, Quit, Kill, Goto, GiveUp
    <3>4. \A w : Goto(p, w) => w = "refused"
      BY DEF Goto, TypeOK
    <3>. QED  BY <3>2, <3>3, <3>4 DEF StepOf, Start, Sweep, SweepReply, MakeReceive, MakeReply,
           Retry, Locate, LocateStat, LocateOpened, LocateFailed, Check, Detach, DetachReceive,
           DetachReply, Quit, Kill, GiveUp
  <2>2. PICK e \in dir : Behind(p, Want[p], e) # {} /\ \E i \in Behind(p, Want[p], e) : Valid(i)
    BY <2>1 DEF Look, Goto, TypeOK, Matches
  <2>3. e.file = Want[p] /\ Valid(e.pid)
    BY <2>2, Plainly
  <2>4. PICK q \in Prog : Alive(q) /\ e.pid \in pid[q]
    BY <2>3 DEF Valid
  <2>5. e.by \in Prog /\ e.pid \in pid[e.by] /\ e.file \in {Want[e.by], ReplyFile[Want[e.by]]}
    BY DEF Made, TypeOK, Entry
  <2>6. e.by = q
    BY <2>4, <2>5 DEF Ids
  <2>7. Want[q] = Want[p]
    BY <2>3, <2>5, <2>6 DEF Plain, NamesApart
  <2>. QED  BY <2>3, <2>4, <2>6, <2>7
<1>2. IInv /\ [Next]_vars => [Honest]_vars
  BY <1>1
<1>. QED  BY <1>2, Invariance, PTL DEF Spec, RefusedMeansTaken
=============================================================================
