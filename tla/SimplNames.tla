----------------------------- MODULE SimplNames -----------------------------
(***************************************************************************)
(* How a SIMPL name gets its owner: the directory FIFO_PATH, where a       *)
(* process called n with process id i keeps the receive fifo n.i and the   *)
(* reply fifo Yn.i, and the library calls that search and change it:       *)
(* name_attach, name_detach, name_locate and simplCheckProcess.            *)
(* A search for n takes whatever begins with n and a dot, and reads a      *)
(* number behind the dot, whether or not a whole name ends there.          *)
(* Nothing locks the directory: a step is one look or one change.          *)
(***************************************************************************)
EXTENDS Naturals

CONSTANTS
    Prog,      \* programs, each of which runs once
    Pid,       \* process ids
    Name,      \* names that programs attach and look up
    File,      \* what stands before the process id in a file name
    ReplyFile, \* ReplyFile[n]: n with a Y before it
    Beyond,    \* Beyond[n][f]: what atoi reads behind n. when f is longer, else {}
    Killable,  \* programs that may get an untrappable signal
    Host       \* the ways the host may be run, see HostRecord

ASSUME NamesAssumption ==
    /\ Name \subseteq File /\ ReplyFile \in [Name -> File] /\ 0 \notin Pid
    /\ Beyond \in [Name -> [File -> {{i} : i \in Pid \cup {0}} \cup {{}}]]

\* want: the name each program attaches; nice: programs that run at nice value
\* -1; blind: programs whose opendir may fail; serial: does one program attach at
\* a time?; reuse: may the kernel give a process id a second time?
HostRecord == [want : [Prog -> Name], nice : SUBSET Prog, blind : SUBSET Prog,
               serial : BOOLEAN, reuse : BOOLEAN]

ASSUME RunAssumption == Killable \subseteq Prog /\ Host \subseteq HostRecord

VARIABLES
    host,  \* how the host is run, which never changes
    dir,   \* fifos in the directory, with the program that made each
    pid,   \* pid[p]: set of the one process id of p, {} before it runs
    pc,    \* where a program is, see Where
    saw    \* the entry p has read in the directory last, and the name searched

vars == <<host, dir, pid, pc, saw>>

Want == host.want

Attaching == {"look", "sweep", "sweepReply", "make", "makeReply"}
Attached == {"up", "stat", "open", "hung", "check", "checkReply"}
Where == {"new", "refused", "half", "detach", "detachReply", "gone", "killed", "failed"}
         \cup Attaching \cup Attached

Entry == [file : File, pid : Pid, by : Prog, open : BOOLEAN]
Found == [name : Name, file : File, pid : Pid]

TypeOK ==
    /\ host \in Host
    /\ dir \subseteq Entry
    /\ pid \in [Prog -> SUBSET Pid]
    /\ pc \in [Prog -> Where]
    /\ saw \in [Prog -> SUBSET Found]
    /\ \A p \in Prog : pc[p] # "new" => \E i \in Pid : pid[p] = {i}

Init ==
    /\ host \in Host
    /\ dir = {}
    /\ pid = [p \in Prog |-> {}]
    /\ pc = [p \in Prog |-> "new"]
    /\ saw = [p \in Prog |-> {}]

-----------------------------------------------------------------------------
(* The directory and the process table.                                    *)

Alive(p) == pc[p] \notin {"new", "gone", "killed", "failed"}

\* The program that made a fifo has it open.
Reads(e) == e.open /\ Alive(e.by) /\ pc[e.by] \notin {"detach", "detachReply"}

Runs(i) == \E p \in Prog : Alive(p) /\ i \in pid[p]

\* getpriority fails with ESRCH.
Gone(i) == ~ Runs(i)

\* Mutant: whatever is in the directory is taken for the fifo of a process
\* that runs.
ValidUnchecked(i) == TRUE

\* getpriority returns something else than -1; it returns -1, with errno 0,
\* for a process that runs at nice value -1.
Valid(i) == \E p \in Prog \ host.nice : Alive(p) /\ i \in pid[p]

\* What p reads in an entry as the process id that follows n: that of the entry,
\* or what stands behind the first dot of a longer name.  No number counts as 0,
\* and process 0 is, to getpriority, the one that asks.
Behind(p, n, e) ==
    IF e.file = n THEN {e.pid} ELSE IF Beyond[n][e.file] = {0} THEN pid[p] ELSE Beyond[n][e.file]

\* The entries readdir may come to first when p searches a fifo of n; its order
\* is the file system's.
Matches(p, n) == {e \in dir : Behind(p, n, e) # {}}

\* Mutant: the process id is left out of the file name.
NamedAny(f, i) == {e \in dir : e.file = f}

Named(f, i) == {e \in dir : e.file = f /\ e.pid = i}

Goto(p, where) == pc' = [pc EXCEPT ![p] = where]

-----------------------------------------------------------------------------
(* name_attach.                                                            *)

\* Mutant: the process id is not noted.
StartUnnoted(p, i) ==
    /\ pc[p] = "new"
    /\ ~ Runs(i)
    /\ Goto(p, "look")
    /\ UNCHANGED <<host, dir, pid, saw>>

\* A program starts and calls name_attach, which notes its process id.
Start(p, i) ==
    /\ pc[p] = "new"
    /\ ~ Runs(i) /\ (host.reuse \/ \A q \in Prog : i \notin pid[q])
    /\ host.serial => \A q \in Prog : pc[q] \notin Attaching
    /\ pid' = [pid EXCEPT ![p] = {i}]
    /\ Goto(p, "look")
    /\ UNCHANGED <<host, dir, saw>>

\* Mutant: a name in use is taken over.
LookIgnored(p) ==
    /\ pc[p] = "look"
    /\ Goto(p, "make")
    /\ UNCHANGED <<host, dir, pid, saw>>

\* _simpl_statFifoName with REMOVE looks at the first entry that matches only.  A
\* directory it cannot open counts as one without a match.
Look(p) ==
    /\ pc[p] = "look"
    /\ \/ /\ Matches(p, Want[p]) = {} \/ p \in host.blind
          /\ Goto(p, "make")
          /\ UNCHANGED saw
       \/ \E e \in Matches(p, Want[p]) : \E i \in Behind(p, Want[p], e) :
             \/ Valid(i) /\ Goto(p, "refused") /\ UNCHANGED saw
             \/ /\ ~ Valid(i) /\ Gone(i)
                /\ saw' = [saw EXCEPT ![p] =
                              {[name |-> Want[p], file |-> e.file, pid |-> e.pid]}]
                /\ Goto(p, "sweep")
             \/ /\ ~ Valid(i) /\ ~ Gone(i)
                /\ Goto(p, "make")
                /\ UNCHANGED saw
    /\ UNCHANGED <<host, dir, pid>>

\* It removes the fifo it has come to, whose process it takes to be gone,
Sweep(p) ==
    /\ pc[p] \in {"sweep", "check"}
    /\ dir' = dir \ UNION {Named(w.file, w.pid) : w \in saw[p]}
    /\ Goto(p, IF pc[p] = "sweep" THEN "sweepReply" ELSE "checkReply")
    /\ UNCHANGED <<host, pid, saw>>

\* ... then the one with a Y before it.
SweepReply(p) ==
    /\ pc[p] \in {"sweepReply", "checkReply"}
    /\ dir' = dir \ {e \in dir : \E w \in saw[p] :
                          w.file \in Name /\ e \in Named(ReplyFile[w.file], w.pid)}
    /\ saw' = [saw EXCEPT ![p] = {}]
    /\ Goto(p, IF pc[p] = "sweepReply" THEN "make" ELSE "up")
    /\ UNCHANGED <<host, pid>>

\* mkfifo, chmod and open: each may fail, mkfifo at least when the file exists.
\* chmod and open leave the file behind when they do.
Make(p, f, opened) == \E i \in pid[p] :
    /\ Named(f, i) = {}
    /\ dir' = dir \cup {[file |-> f, pid |-> i, by |-> p, open |-> opened]}

MakeFails(p, f) == UNCHANGED dir \/ Make(p, f, FALSE)

MakeReceive(p) ==
    /\ pc[p] = "make"
    /\ \/ Make(p, Want[p], TRUE) /\ Goto(p, "makeReply")
       \/ MakeFails(p, Want[p]) /\ Goto(p, "half")
    /\ UNCHANGED <<host, pid, saw>>

\* A failure here leaves the receive fifo behind, open.
MakeReply(p) ==
    /\ pc[p] = "makeReply"
    /\ \/ Make(p, ReplyFile[Want[p]], TRUE) /\ Goto(p, "up")
       \/ MakeFails(p, ReplyFile[Want[p]]) /\ Goto(p, "half")
    /\ UNCHANGED <<host, pid, saw>>

\* A program whose name_attach failed calls it again.
Retry(p) ==
    /\ pc[p] \in {"refused", "half"}
    /\ host.serial => \A q \in Prog : pc[q] \notin Attaching
    /\ Goto(p, "look")
    /\ UNCHANGED <<host, dir, pid, saw>>

-----------------------------------------------------------------------------
(* name_locate of a local name, and simplCheckProcess.                     *)

\* _simpl_getFifoName
Locate(p, n) ==
    /\ pc[p] = "up"
    /\ \E e \in Matches(p, n) :
          saw' = [saw EXCEPT ![p] = {[name |-> n, file |-> e.file, pid |-> e.pid]}]
    /\ Goto(p, "stat")
    /\ UNCHANGED <<host, dir, pid>>

GiveUp(p) == Goto(p, "up") /\ saw' = [saw EXCEPT ![p] = {}]

\* _simpl_statFifoName with NO_REMOVE reads the directory again.
LocateStat(p) ==
    /\ pc[p] = "stat"
    /\ \E w \in saw[p] :
          \/ /\ \E e \in Matches(p, w.name) : \E i \in Behind(p, w.name, e) : Valid(i)
             /\ Goto(p, "open")
             /\ UNCHANGED saw
          \/ /\ \/ Matches(p, w.name) = {} \/ p \in host.blind
                \/ \E e \in Matches(p, w.name) : \E i \in Behind(p, w.name, e) : ~ Valid(i)
             /\ GiveUp(p)
    /\ UNCHANGED <<host, dir, pid>>

\* The open of the fifo that was found first succeeds when somebody reads it,
LocateOpened(p) ==
    /\ pc[p] = "open"
    /\ \E w \in saw[p] : \E e \in Named(w.file, w.pid) : Reads(e)
    /\ GiveUp(p)
    /\ UNCHANGED <<host, dir, pid>>

\* ... fails when the file is gone, and waits for ever when nobody reads it.
LocateFailed(p) ==
    /\ pc[p] = "open"
    /\ \E w \in saw[p] : LET found == Named(w.file, w.pid) IN
          \/ found = {} /\ GiveUp(p)
          \/ /\ found # {} /\ \A e \in found : ~ Reads(e)
             /\ Goto(p, "hung")
             /\ UNCHANGED saw
    /\ UNCHANGED <<host, dir, pid>>

\* simplCheckProcess on the record that q, attached once, put in a message.
Check(p, q) ==
    /\ pc[p] = "up" /\ pc[q] \in {"gone", "killed"}
    /\ \E i \in pid[q] :
          /\ Gone(i)
          /\ saw' = [saw EXCEPT ![p] = {[name |-> Want[q], file |-> Want[q], pid |-> i]}]
    /\ Goto(p, "check")
    /\ UNCHANGED <<host, dir, pid>>

-----------------------------------------------------------------------------
(* name_detach, and the end of a program.                                  *)

\* name_detach closes the fifos; the process id noted by name_attach is all
\* that it tests, so it also runs after a name_attach that failed.
Detach(p) ==
    /\ pc[p] \in {"up", "refused", "half"}
    /\ Goto(p, "detach")
    /\ UNCHANGED <<host, dir, pid, saw>>

DetachReceive(p) ==
    /\ pc[p] = "detach"
    /\ dir' = dir \ UNION {Named(Want[p], i) : i \in pid[p]}
    /\ Goto(p, "detachReply")
    /\ UNCHANGED <<host, pid, saw>>

DetachReply(p) ==
    /\ pc[p] = "detachReply"
    /\ dir' = dir \ UNION {Named(ReplyFile[Want[p]], i) : i \in pid[p]}
    /\ Goto(p, "gone")
    /\ UNCHANGED <<host, pid, saw>>

\* name_attach registers the clean up at exit only when it succeeds.
Quit(p) ==
    /\ pc[p] \in {"refused", "half"}
    /\ Goto(p, "failed")
    /\ UNCHANGED <<host, dir, pid, saw>>

Kill(p) ==
    /\ p \in Killable /\ Alive(p)
    /\ Goto(p, IF pc[p] \in Attaching \cup {"refused", "half"} THEN "failed" ELSE "killed")
    /\ UNCHANGED <<host, dir, pid, saw>>

-----------------------------------------------------------------------------
Next ==
    \E p \in Prog :
       \/ Look(p) \/ Sweep(p) \/ SweepReply(p) \/ MakeReceive(p) \/ MakeReply(p)
       \/ Retry(p) \/ LocateStat(p) \/ LocateOpened(p) \/ LocateFailed(p)
       \/ Detach(p) \/ DetachReceive(p) \/ DetachReply(p) \/ Quit(p) \/ Kill(p)
       \/ \E i \in Pid : Start(p, i)
       \/ \E n \in Name : Locate(p, n)
       \/ \E q \in Prog : Check(p, q)

Spec == Init /\ [][Next]_vars

-----------------------------------------------------------------------------
(* What the directory is for.                                              *)

\* No name in use has another one before a dot, in itself or in its reply fifo, and
\* none is another one with a Y before it.
NamesApart ==
    \A p, q \in Prog : /\ ReplyFile[Want[q]] # Want[p]
                       /\ Beyond[Want[p]][Want[q]] = {}
                       /\ Beyond[Want[p]][ReplyFile[Want[q]]] = {}

\* The host asks nothing unusual of name_attach.
Plain == host.nice = {} /\ host.blind = {} /\ ~ host.reuse /\ NamesApart

\* No two attached programs have the same name.
NameIsUnique ==
    \A p, q \in Prog : pc[p] \in Attached /\ pc[q] \in Attached /\ Want[p] = Want[q] => p = q

\* Programs that attach one after the other get different names, whatever failed
\* and whatever was killed where, and whatever orphans that left.
UniqueName == host.serial /\ Plain => NameIsUnique

\* The two fifos of an attached program stay in the directory: the sweeps of
\* the others, however late they come, take away those of the dead only.  A
\* program that called name_detach leaves nothing in it.
FilesKept ==
    /\ \A p \in Prog : pc[p] \in Attached /\ Plain =>
           \A f \in {Want[p], ReplyFile[Want[p]]} : \E e \in dir : e.file = f /\ e.by = p
    /\ \A e \in dir : pc[e.by] # "gone"

\* name_attach says that a name is not available only when another program that
\* runs has it, or the program itself has left its receive fifo there in a
\* name_attach that failed half way.
RefusedMeansTaken ==
    [][\A p \in Prog : pc[p] \in Attaching /\ pc'[p] = "refused" /\ Plain =>
          \/ \E q \in Prog \ {p} : Alive(q) /\ Want[q] = Want[p]
          \/ \E e \in dir : e.by = p /\ e.file = Want[p]]_vars
=============================================================================
