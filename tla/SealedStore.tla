---------------------------- MODULE SealedStore ----------------------------
(***************************************************************************)
(* The file of the shadow store at rest (shadow_store.py with a            *)
(* passphrase).  An operation decrypts shield.db.enc into the working copy *)
(* shield.db, works on it with SQLite, and a writer seals it again; all    *)
(* processes share the two files, the temporary one, and no lock.          *)
(*                                                                         *)
(* A path leads to an inode, and a process that holds one open keeps it    *)
(* when the path is removed or given to another.  Of a database only its   *)
(* rows of table shadows count; a transaction is one step.                 *)
(***************************************************************************)
EXTENDS Naturals, FiniteSets

CONSTANTS
    Row,        \* content hashes
    Sweeper,    \* the process that indexes
    Asker,      \* processes that read, or mark a file as pending
    None, Zero, \* no inode; a file of no bytes
    MaxAsks,    \* bound: operations of the askers
    MaxFaults   \* bound: kills, errors, keychain reads without an answer

VARIABLES
    at,       \* [path -> its inode]
    disk,     \* [inode -> what it holds]
    op,       \* [process -> the operation it is in]
    todo,     \* what the sweep did not find in the store
    put,      \* rows whose put_shadow has returned
    left,     \* an operation was cut short and left its working copy
    trouble,  \* what may make the store lose a row
    asks, faults   \* bounded

vars == <<at, disk, op, todo, put, left, trouble, asks, faults>>
files == <<at, disk>>
books == <<todo, put, trouble, asks>>

Proc == {Sweeper} \cup Asker
Path == {"db", "enc", "tmp"}
Inode == 1..(Cardinality(Proc) + Cardinality(Path) + 1)

Idle == [pc |-> "idle", kind |-> None, row |-> None, fd |-> None, bytes |-> Zero, ok |-> FALSE]

Rows(c) == IF c = Zero THEN {} ELSE c
Holds(path) == Rows(disk[at[path]])   \* of a path that leads somewhere

At(p, pc) == op[p].pc = pc
Goto(p, pc) == op' = [op EXCEPT ![p].pc = pc]
Writer(p) == op[p].kind \in {"put", "mark"}

\* Nothing, or the plaintext store of a machine without a passphrase so far.
Init ==
    /\ \E rows \in {{}, Row} :
          /\ at = [path \in Path |-> IF path = "db" /\ rows # {} THEN 1 ELSE None]
          /\ disk = [i \in Inode |-> IF i = 1 THEN rows ELSE {}]
          /\ put = rows /\ trouble = IF rows # {} THEN {"plaintext before"} ELSE {}
          /\ left = (rows # {})
    /\ op = [p \in Proc |-> Idle] /\ todo = {} /\ asks = 0 /\ faults = 0

\* An inode no path and no process has.
Fresh == CHOOSE i \in Inode :
            /\ \A path \in Path : at[path] # i
            /\ \A p \in Proc : op[p].fd # i

\* open(path): the file is there or is created.
Opened(path) == IF at[path] = None THEN Fresh ELSE at[path]
Create(path) == at' = [at EXCEPT ![path] = Opened(path)]

\* The passphrase comes from the environment, or from the keychain each time it
\* is asked for; a keychain that does not answer counts as no passphrase.
Fault == faults < MaxFaults /\ faults' = faults + 1
Key == UNCHANGED <<faults, trouble>>
NoKey == Fault /\ trouble' = trouble \cup {"no passphrase"}

Overlap(p) == IF \E q \in Proc \ {p} : op[q] # Idle THEN {"overlap"} ELSE {}
-----------------------------------------------------------------------------
(* connect.                                                                *)

Unreadable == at["enc"] # None /\ disk[at["enc"]] = Zero

\* The envelope is read and decrypted; one of no bytes raises, before anything.
Connect(p, kind, row) ==
    /\ op[p] = Idle /\ ~Unreadable
    /\ op' = [op EXCEPT ![p] =
                 [Idle EXCEPT !.kind = kind, !.row = row,
                              !.pc = IF at["enc"] # None THEN "decrypt" ELSE "open",
                              !.bytes = IF at["enc"] # None THEN disk[at["enc"]] ELSE Zero]]
    /\ trouble' = trouble \cup Overlap(p)
    /\ UNCHANGED <<files, put, left, faults>>

\* Without a passphrase the working copy is the store.
ConnectPlain(p, kind, row) ==
    /\ op[p] = Idle /\ NoKey
    /\ op' = [op EXCEPT ![p] = [Idle EXCEPT !.kind = kind, !.row = row, !.pc = "open"]]
    /\ UNCHANGED <<files, put, left>>

\* write_bytes truncates, then writes; it writes what it opened, wherever the
\* path leads by then.
DecryptToWorkingCopy(p) ==
    /\ At(p, "decrypt")
    /\ Create("db") /\ disk' = [disk EXCEPT ![Opened("db")] = Zero]
    /\ op' = [op EXCEPT ![p].pc = "write", ![p].fd = Opened("db")]
    /\ UNCHANGED <<books, left, faults>>

WriteWorkingCopy(p) ==
    /\ At(p, "write")
    /\ disk' = [disk EXCEPT ![op[p].fd] = op[p].bytes] /\ Goto(p, "open")
    /\ UNCHANGED <<at, books, left, faults>>

OpenDb(p) ==
    /\ At(p, "open")
    /\ Create("db")
    /\ disk' = [disk EXCEPT ![Opened("db")] = IF at["db"] = None THEN {} ELSE Rows(@)]
    /\ op' = [op EXCEPT ![p].pc = "sql", ![p].fd = Opened("db")]
    /\ UNCHANGED <<books, left, faults>>

\* No room on the disk, a locked database: connect raises, and the callers call
\* it outside of their try.
ConnectFails(p) ==
    /\ op[p].pc \in {"write", "open"} /\ Fault
    /\ op' = [op EXCEPT ![p] = Idle] /\ left' = (at["db"] # None)
    /\ UNCHANGED <<files, books>>
-----------------------------------------------------------------------------
(* The operations.                                                         *)

\* list_indexed, get_shadow, pending_files...
Read(p) ==
    /\ At(p, "sql") /\ ~Writer(p) /\ Goto(p, "drop")
    /\ todo' = IF p = Sweeper THEN Row \ Rows(disk[op[p].fd]) ELSE todo
    /\ UNCHANGED <<files, put, left, trouble, asks, faults>>

\* Mutant: a transaction that fails ends the operation.
WriteOrLeave(p) ==
    /\ At(p, "sql") /\ Writer(p)
    /\ \/ /\ disk' = [disk EXCEPT ![op[p].fd] =
                         IF op[p].kind = "put" THEN Rows(@) \cup {op[p].row} ELSE @]
          /\ op' = [op EXCEPT ![p].pc = "seal", ![p].ok = TRUE] /\ UNCHANGED faults
       \/ Fault /\ op' = [op EXCEPT ![p] = Idle] /\ UNCHANGED disk
    /\ UNCHANGED <<at, books, left>>

\* put_shadow, or mark_pending, clear_pending...; if it fails the working copy
\* is sealed all the same.
Write(p) ==
    /\ At(p, "sql") /\ Writer(p)
    /\ \/ /\ disk' = [disk EXCEPT ![op[p].fd] =
                         IF op[p].kind = "put" THEN Rows(@) \cup {op[p].row} ELSE @]
          /\ op' = [op EXCEPT ![p].pc = "seal", ![p].ok = TRUE] /\ UNCHANGED faults
       \/ Fault /\ Goto(p, "seal") /\ UNCHANGED disk
    /\ UNCHANGED <<at, books, left>>

\* An operation that returns, or raises if it is not ok.
Return(p, ok) ==
    /\ op' = [op EXCEPT ![p] = Idle]
    /\ put' = put \cup (IF ok /\ op[p].kind = "put" THEN {op[p].row} ELSE {})

\* _drop_working_copy.
Drop(p) ==
    /\ At(p, "drop") /\ Key
    /\ at' = [at EXCEPT !["db"] = None] /\ left' = FALSE
    /\ Return(p, op[p].ok)
    /\ UNCHANGED <<disk, todo, asks>>

KeepWorkingCopy(p) ==
    /\ At(p, "drop") /\ NoKey
    /\ left' = (at["db"] # None) /\ Return(p, op[p].ok)
    /\ UNCHANGED <<files, todo, asks>>
-----------------------------------------------------------------------------
(* _seal.                                                                  *)

\* A working copy that is gone is taken for sealed.
Seal(p) ==
    /\ At(p, "seal") /\ Key
    /\ IF at["db"] = None THEN Return(p, op[p].ok)
       ELSE /\ op' = [op EXCEPT ![p].pc = "tmp", ![p].bytes = Holds("db")]
            /\ UNCHANGED put
    /\ UNCHANGED <<files, todo, left, asks>>

SealPlain(p) ==
    /\ At(p, "seal") /\ NoKey
    /\ left' = (at["db"] # None) /\ Return(p, op[p].ok)
    /\ UNCHANGED <<files, todo, asks>>

\* Mutant: the envelope is written in place.
OpenEnc(p) ==
    /\ At(p, "tmp")
    /\ Create("enc") /\ disk' = [disk EXCEPT ![Opened("enc")] = Zero]
    /\ op' = [op EXCEPT ![p].pc = "envelope", ![p].fd = Opened("enc")]
    /\ UNCHANGED <<books, left, faults>>

OpenTmp(p) ==
    /\ At(p, "tmp")
    /\ Create("tmp") /\ disk' = [disk EXCEPT ![Opened("tmp")] = Zero]
    /\ op' = [op EXCEPT ![p].pc = "envelope", ![p].fd = Opened("tmp")]
    /\ UNCHANGED <<books, left, faults>>

WriteTmp(p) ==
    /\ At(p, "envelope")
    /\ disk' = [disk EXCEPT ![op[p].fd] = op[p].bytes] /\ Goto(p, "replace")
    /\ UNCHANGED <<at, books, left, faults>>

\* os.replace raises if another process has taken the temporary file.
Replace(p) ==
    /\ At(p, "replace")
    /\ IF at["tmp"] = None
       THEN op' = [op EXCEPT ![p].pc = "drop", ![p].ok = FALSE] /\ UNCHANGED at
       ELSE at' = [at EXCEPT !["enc"] = at["tmp"], !["tmp"] = None] /\ Goto(p, "drop")
    /\ UNCHANGED <<disk, books, left, faults>>

\* The encryption or the file fails; the working copy is dropped all the same.
SealFails(p) ==
    /\ op[p].pc \in {"tmp", "envelope"} /\ Fault
    /\ op' = [op EXCEPT ![p].pc = "drop", ![p].ok = FALSE]
    /\ UNCHANGED <<files, books, left>>
-----------------------------------------------------------------------------
\* A process is killed in the middle of an operation.
Kill(p) ==
    /\ op[p] # Idle /\ Fault
    /\ op' = [op EXCEPT ![p] = Idle] /\ left' = (at["db"] # None)
    /\ UNCHANGED <<files, books>>

\* The sweep lists the store and puts what it lacks, again and again.
Index ==
    \E key \in BOOLEAN :
        LET Begin(kind, row) == IF key THEN Connect(Sweeper, kind, row)
                                ELSE ConnectPlain(Sweeper, kind, row)
        IN  /\ \/ todo = {} /\ Begin("list", None) /\ UNCHANGED todo
               \/ \E row \in todo : Begin("put", row) /\ todo' = todo \ {row}
            /\ UNCHANGED asks

Ask(p) ==
    /\ asks < MaxAsks /\ asks' = asks + 1
    /\ \E kind \in {"get", "mark"} : Connect(p, kind, None) \/ ConnectPlain(p, kind, None)
    /\ UNCHANGED todo

Step(p) ==
    \/ DecryptToWorkingCopy(p) \/ WriteWorkingCopy(p) \/ OpenDb(p)
    \/ Read(p) \/ Write(p) \/ Drop(p)
    \/ Seal(p) \/ OpenTmp(p) \/ WriteTmp(p) \/ Replace(p)

Fails(p) ==
    ConnectFails(p) \/ KeepWorkingCopy(p) \/ SealPlain(p) \/ SealFails(p) \/ Kill(p)

Next ==
    \/ Index
    \/ \E p \in Asker : Ask(p)
    \/ \E p \in Proc : Step(p) \/ Fails(p)

Spec == Init /\ [][Next]_vars
-----------------------------------------------------------------------------
(* Properties.                                                             *)

TypeOK ==
    /\ at \in [Path -> Inode \cup {None}] /\ disk \in [Inode -> {Zero} \cup SUBSET Row]
    /\ op \in [Proc -> [pc : {"idle", "decrypt", "write", "open", "sql", "drop", "seal",
                              "tmp", "envelope", "replace"},
                        kind : {None, "list", "get", "put", "mark"}, row : Row \cup {None},
                        fd : Inode \cup {None}, bytes : {Zero} \cup SUBSET Row, ok : BOOLEAN]]
    /\ todo \subseteq Row /\ put \subseteq Row /\ left \in BOOLEAN
    /\ trouble \subseteq {"overlap", "no passphrase", "plaintext before"}
    /\ asks \in 0..MaxAsks /\ faults \in 0..MaxFaults
    /\ \A p \in Proc : op[p].fd # None => ~At(p, "idle")

\* NothingInClear: when no operation is under way there is no working copy, in
\* whatever order the processes opened and removed it, unless one was cut short
\* and none has ended since: the next operation of any process that ends
\* removes what a kill or an error left behind.
NothingInClear == (\A p \in Proc : op[p] = Idle) /\ ~left => at["db"] = None

\* What the next operation will find.
Stored == IF at["enc"] # None THEN Holds("enc")
          ELSE IF at["db"] # None THEN Holds("db") ELSE {}

\* PutsKept: a row whose put_shadow has returned stays in the store, and the
\* store stays readable, wherever an operation was killed or failed, as long
\* as one operation ran at a time and the passphrase was there.
PutsKept == trouble = {} => put \subseteq Stored /\ ~Unreadable
=============================================================================
