------------------------------ MODULE Commands ------------------------------
(***************************************************************************)
(* The commands of the program (src/src/main.rs) and the files they leave: *)
(* extract writes a transaction file, generate a test vector, and          *)
(* generate-from-file a test vector for every transaction file of a        *)
(* directory.  A file is created and then written piece by piece; a run    *)
(* may be killed between two pieces, started again, or share a directory   *)
(* with another run: the README extracts into one directory and generates  *)
(* from it into another.                                                   *)
(***************************************************************************)
EXTENDS Naturals, SequencesExt

CONSTANTS
    Process,        \* runs that may exist at one time
    Tx,             \* transactions
    Unbuildable,    \* those whose export fails or panics
    Dir,            \* directories, existing and never removed
    Tree,           \* what WalkDir reaches from a directory, itself included
    Name,           \* file names
    JsonName,       \* those that end in ".json"
    Hash,           \* <hash>.json, as --tx-hash spells it, to the transaction
    Command,        \* command lines that are given
    InitialFiles,   \* the files before the first command, torn ones too
    None,           \* no such file, or no document
    Directory,      \* a directory that has one of the names
    Pieces,         \* pieces a document is written in
    MaxStarts,      \* bound on commands
    MaxKills        \* bound on runs cut short

Path == Dir \X Name

ASSUME CommandsAssumption ==
    /\ IsFiniteSet(Dir) /\ IsFiniteSet(Name)
    /\ Unbuildable \subseteq Tx
    /\ Tree \in [Dir -> SUBSET Dir]
    /\ JsonName \subseteq Name
    /\ DOMAIN Hash \subseteq JsonName /\ Hash \in [DOMAIN Hash -> Tx]
    /\ Pieces \in Nat \ {0} /\ MaxStarts \in Nat /\ MaxKills \in Nat

(***************************************************************************)
(* A document is a transaction file, a test vector, or a transaction file  *)
(* that lacks a field (the one of tests/contracts has no "random").  The   *)
(* text of a file is its pieces; a piece is missing when a writer that was *)
(* further wrote into a file another one had just emptied.                 *)
(***************************************************************************)
Document == {"detail", "vector", "outdated"} \X Tx
Text(doc) == [k \in 1 .. Pieces |-> <<doc, k>>]
Hole      == <<None, 0>>
Piece     == (Document \X (1 .. Pieces)) \cup {Hole}

IsContent(c) == c \in {None, Directory} \/ c \in BoundedSeq(Piece, Pieces)

(* not torn *)
IsWhole(c) == c \in {None, Directory} \/ \E d \in Document : c = Text(d)

(* from_reader: the whole text of a transaction file, and nothing less *)
Parses(c)  == \E tx \in Tx : c = Text(<<"detail", tx>>)
TxOf(c)    == CHOOSE tx \in Tx : c = Text(<<"detail", tx>>)

IsCommand(c) ==
    \/ c \in [op : {"extract", "generate"}, name : DOMAIN Hash, out : Dir \cup {None}]
    \/ c \in [op : {"from_file"}, input : Dir \cup Path, out : Dir \cup {None}]

ASSUME InstanceAssumption ==
    /\ \A c \in Command : IsCommand(c)
    /\ \A f \in InitialFiles :
          /\ f = [path \in Path |-> f[path]]
          /\ \A path \in Path : IsContent(f[path])

(* None is no result; no file is not an empty one, nor is a directory. *)
ASSUME NoneAssumption ==
    /\ None \notin {"ok", "failed", "killed"}
    /\ {None, Directory} \cap BoundedSeq(Piece, Pieces) = {}

VARIABLES
    file,       \* what each path holds
    initial,    \* what it held at first
    pc,         \* a run: "idle", "fetch", "loop", "export", "create", "write"
    cmd,        \* its command line
    listed,     \* the paths it collected, in the order of WalkDir
    todo,       \* those the loop has not come to
    doc,        \* the document in memory
    target,     \* the path it writes to
    written,    \* pieces of doc written so far
    result,     \* how the last command ended: "ok", "failed" or "killed"
    alone,      \* no other run since the last command started
    hurt,       \* paths whose last writer was killed, or met another text
    starts, kills

vars == <<file, initial, pc, cmd, listed, todo, doc, target, written, result,
          alone, hurt, starts, kills>>

(* what no step of a started run changes *)
given == <<initial, cmd, listed, alone, starts>>

Init ==
    /\ initial \in InitialFiles
    /\ file = initial
    /\ pc = [p \in Process |-> "idle"]
    /\ cmd = [p \in Process |-> None]
    /\ listed = [p \in Process |-> <<>>]
    /\ todo = listed
    /\ doc = cmd
    /\ target = cmd
    /\ written = [p \in Process |-> 0]
    /\ result = cmd
    /\ alone = [p \in Process |-> FALSE]
    /\ hurt = {path \in Path : ~IsWhole(initial[path])}
    /\ starts = 0 /\ kills = 0

-----------------------------------------------------------------------------
(* Steps of a run *)

Ends(p, how) ==
    /\ pc' = [pc EXCEPT ![p] = "idle"]
    /\ result' = [result EXCEPT ![p] = how]

(* ?, expect, unwrap or assert: main returns, and no file is touched *)
Fails(p) ==
    /\ Ends(p, "failed")
    /\ UNCHANGED <<given, file, todo, doc, target, written, hurt, kills>>

(* mutant: every file is taken, whatever its name *)
RunnableAny(input) ==
    IF input \in Path THEN {input}
    ELSE {path \in Path : path[1] \in Tree[input] /\ file[path] # None}

(* is_runnable: a directory may have such a name too *)
Runnable(input) ==
    IF input \in Path THEN {input}
    ELSE {path \in Path : /\ path[1] \in Tree[input]
                          /\ path[2] \in JsonName
                          /\ file[path] # None}

(* the order in which WalkDir finds them is the file system's *)
Listings(S) == {s \in [1 .. Cardinality(S) -> S] : IsInjective(s)}

(* A command is given; the output directory is asserted, the input listed. *)
Start(p, c) ==
    /\ pc[p] = "idle"
    /\ starts < MaxStarts
    /\ starts' = starts + 1
    /\ cmd' = [cmd EXCEPT ![p] = c]
    /\ alone' = [q \in Process |-> q = p /\ \A r \in Process : pc[r] = "idle"]
    /\ \E files \in Listings(IF c.out # None /\ c.op = "from_file"
                             THEN Runnable(c.input) ELSE {}) :
          /\ listed' = [listed EXCEPT ![p] = files]
          /\ todo' = [todo EXCEPT ![p] = files]
    /\ IF c.out = None THEN Ends(p, "failed")
       ELSE /\ result' = [result EXCEPT ![p] = None]
            /\ pc' = [pc EXCEPT ![p] = IF c.op = "from_file" THEN "loop" ELSE "fetch"]
    /\ doc' = [doc EXCEPT ![p] = None]
    /\ target' = [target EXCEPT ![p] = None]
    /\ written' = [written EXCEPT ![p] = 0]
    /\ UNCHANGED <<file, initial, hurt, kills>>

(* extract_eth_transaction_test_vector; generate goes on to the export *)
Fetch(p) ==
    /\ pc[p] = "fetch"
    /\ doc' = [doc EXCEPT ![p] = <<"detail", Hash[cmd[p].name]>>]
    /\ target' = [target EXCEPT ![p] = <<cmd[p].out, cmd[p].name>>]
    /\ pc' = [pc EXCEPT ![p] =
                IF cmd[p].op = "extract" THEN "create" ELSE "export"]
    /\ UNCHANGED <<given, file, todo, written, result, hurt, kills>>

FetchFails(p) ==
    /\ pc[p] = "fetch"
    /\ Fails(p)

(* the transaction file at the head of the list, for the output path out *)
Take(p, out, rest) ==
    /\ pc[p] = "loop"
    /\ todo[p] # <<>>
    /\ Parses(file[Head(todo[p])])
    /\ doc' = [doc EXCEPT ![p] = <<"detail", TxOf(file[Head(todo[p])])>>]
    /\ target' = [target EXCEPT ![p] = out]
    /\ todo' = [todo EXCEPT ![p] = rest]
    /\ pc' = [pc EXCEPT ![p] = "export"]
    /\ UNCHANGED <<given, written, result, hurt, kills>>

(* mutant: the output path is made once, before the loop *)
ReadToFirst(p) ==
    /\ Take(p, <<cmd[p].out, listed[p][1][2]>>, Tail(todo[p]))
    /\ UNCHANGED file

(* mutant: the output file is created before the export *)
ReadAndCreate(p) ==
    /\ Take(p, <<cmd[p].out, Head(todo[p])[2]>>, Tail(todo[p]))
    /\ file' = [file EXCEPT ![target'[p]] = <<>>]

(***************************************************************************)
(* The next path of the loop, or the only one.  from_reader reads it in    *)
(* the chunks of a BufReader; here it is read in one step, so that what    *)
(* another run writes to it meanwhile is read as a whole or not at all.    *)
(***************************************************************************)
Read(p) ==
    /\ Take(p, <<cmd[p].out, Head(todo[p])[2]>>, Tail(todo[p]))
    /\ UNCHANGED file

(* File::open fails, or "Serialization failed": the batch ends here. *)
ReadFails(p) ==
    /\ pc[p] = "loop"
    /\ todo[p] # <<>>
    /\ ~Parses(file[Head(todo[p])])
    /\ Fails(p)

(* export_test_vector_file up to File::create: nothing is written yet. *)
Export(p) ==
    /\ pc[p] = "export"
    /\ doc[p][2] \notin Unbuildable
    /\ doc' = [doc EXCEPT ![p] = <<"vector", @[2]>>]
    /\ pc' = [pc EXCEPT ![p] = "create"]
    /\ UNCHANGED <<given, file, todo, target, written, result, hurt, kills>>

(* mutant: a file that cannot be exported is passed over *)
ExportPassesOver(p) ==
    /\ pc[p] = "export"
    /\ doc[p][2] \in Unbuildable
    /\ pc' = [pc EXCEPT ![p] = "loop"]
    /\ UNCHANGED <<given, file, todo, doc, target, written, result, hurt, kills>>

(* mutant: a batch that cannot export a file is started over *)
ExportRestarts(p) ==
    /\ pc[p] = "export"
    /\ doc[p][2] \in Unbuildable
    /\ IF cmd[p].op = "from_file"
       THEN /\ pc' = [pc EXCEPT ![p] = "loop"]
            /\ todo' = [todo EXCEPT ![p] = listed[p]]
            /\ UNCHANGED <<given, file, doc, target, written, result, hurt, kills>>
       ELSE Fails(p)

ExportFails(p) ==
    /\ pc[p] = "export"
    /\ doc[p][2] \in Unbuildable
    /\ Fails(p)

(* another run is writing another text to the path *)
Contested(p) ==
    \E q \in Process \ {p} :
        pc[q] = "write" /\ target[q] = target[p] /\ doc[q] # doc[p]

(* File::create empties the file that was there. *)
Open(p, position) ==
    /\ pc[p] = "create"
    /\ file[target[p]] # Directory
    /\ file' = [file EXCEPT ![target[p]] = <<>>]
    /\ written' = [written EXCEPT ![p] = position]
    /\ pc' = [pc EXCEPT ![p] = "write"]
    /\ hurt' = IF Contested(p) THEN hurt \cup {target[p]} ELSE hurt \ {target[p]}
    /\ UNCHANGED <<given, todo, doc, target, result, kills>>

(* mutant: the position of the last file is kept *)
CreateKeepingPosition(p) == Open(p, written[p])

Create(p) == Open(p, 0)

CreateFails(p) ==
    /\ pc[p] = "create"
    /\ file[target[p]] = Directory
    /\ Fails(p)

(* a write at the position of this writer, wherever the file ends *)
WriteAt(c, k, piece) ==
    [j \in 1 .. Max({Len(c), k}) |->
        IF j = k THEN piece ELSE IF j \in DOMAIN c THEN c[j] ELSE Hole]

(* to_writer_pretty; after the last piece the next file is due, if any *)
Write(p) ==
    /\ pc[p] = "write"
    /\ written' = [written EXCEPT ![p] = @ + 1]
    /\ file' = [file EXCEPT ![target[p]] =
                    WriteAt(@, written'[p], <<doc[p], written'[p]>>)]
    /\ IF written'[p] < Pieces THEN UNCHANGED <<pc, result>>
       ELSE IF cmd[p].op = "from_file"
            THEN pc' = [pc EXCEPT ![p] = "loop"] /\ UNCHANGED result
            ELSE Ends(p, "ok")
    /\ UNCHANGED <<given, todo, doc, target, hurt, kills>>

(* Ok(()) at the end of main *)
Finish(p) ==
    /\ pc[p] = "loop"
    /\ todo[p] = <<>>
    /\ Ends(p, "ok")
    /\ UNCHANGED <<given, file, todo, doc, target, written, hurt, kills>>

(* The run is killed, or the disk is full: what is written stays. *)
Kill(p) ==
    /\ pc[p] # "idle"
    /\ kills < MaxKills
    /\ kills' = kills + 1
    /\ Ends(p, "killed")
    /\ hurt' = IF pc[p] = "write" THEN hurt \cup {target[p]} ELSE hurt
    /\ UNCHANGED <<given, file, todo, doc, target, written>>

Step(p) ==
    \/ Fetch(p) \/ FetchFails(p) \/ Read(p) \/ ReadFails(p) \/ Export(p)
    \/ ExportFails(p) \/ Create(p) \/ CreateFails(p) \/ Write(p) \/ Finish(p)

Next ==
    \E p \in Process : Step(p) \/ Kill(p) \/ \E c \in Command : Start(p, c)

Spec == Init /\ [][Next]_vars

(* A run that is not killed is scheduled by the operating system. *)
FairSpec == Spec /\ \A p \in Process : WF_vars(Step(p))

-----------------------------------------------------------------------------
(* Properties *)

TypeOK ==
    /\ initial \in InitialFiles
    /\ DOMAIN file = Path /\ \A path \in Path : IsContent(file[path])
    /\ pc \in [Process -> {"idle", "fetch", "loop", "export", "create", "write"}]
    /\ cmd \in [Process -> Command \cup {None}]
    /\ \A p \in Process :
          /\ listed[p] \in Seq(Path) /\ IsInjective(listed[p])
          /\ \E n \in 0 .. Len(listed[p]) :
                todo[p] = SubSeq(listed[p], n + 1, Len(listed[p]))
    /\ doc \in [Process -> Document \cup {None}]
    /\ target \in [Process -> Path \cup {None}]
    /\ written \in [Process -> 0 .. Pieces]
    /\ result \in [Process -> {"ok", "failed", "killed", None}]
    /\ alone \in [Process -> BOOLEAN]
    /\ hurt \in SUBSET Path
    /\ starts \in 0 .. MaxStarts /\ kills \in 0 .. MaxKills

(* no file there *)
Bare(files) == {path \in Path : files[path] \in {None, Directory}}

(* the transactions that a file name may stand for *)
Origins(name) ==
    {Hash[n] : n \in {name} \cap DOMAIN Hash}
      \cup UNION {{piece[1][2] : piece \in Range(initial[path])} :
                     path \in {<<d, name>> : d \in Dir} \ Bare(initial)}

(***************************************************************************)
(* Whatever is in a file, torn or whole, is of a transaction that its name *)
(* stands for: by its hash, or because a file of that name held it.  The   *)
(* name of an input is taken over by its vector, through the loop and      *)
(* whatever other runs write meanwhile.                                    *)
(***************************************************************************)
TextsHaveOrigins ==
    \A path \in Path \ Bare(file) : \A piece \in Range(file[path]) :
        piece = Hole \/ piece[1][2] \in Origins(path[2])

(***************************************************************************)
(* A file is left torn by a run that was killed while it wrote it, or by   *)
(* two runs that wrote different documents to it at one time - and by      *)
(* nothing else: a command that fails has not touched the file it would    *)
(* have written, and two runs that write one document do each other no     *)
(* harm.  A later run that writes the file makes it whole again.           *)
(***************************************************************************)
OnlyInterruptionsTear ==
    \A path \in Path :
        \/ IsWhole(file[path]) \/ path \in hurt
        \/ \E p \in Process : pc[p] = "write" /\ target[p] = path

(* the paths a run is through with *)
Handled(p) ==
    LET busy == IF pc[p] = "loop" \/ result[p] = "ok" THEN 0 ELSE 1
    IN  {listed[p][j] : j \in 1 .. Len(listed[p]) - Len(todo[p]) - busy}

(* a run over files that are not in its output directory *)
Separate(p) ==
    /\ cmd[p] # None /\ cmd[p].op = "from_file"
    /\ \A path \in Range(listed[p]) : path[1] # cmd[p].out

(***************************************************************************)
(* Every file the loop is through with has its vector: made from that file *)
(* or, when several files have one name, from another one of that name.    *)
(* In particular a command that succeeds leaves no input without a vector, *)
(* and one that fails keeps the vectors it had made.                       *)
(***************************************************************************)
HandledAreWritten ==
    \A p \in Process : alone[p] /\ Separate(p) =>
        \A path \in Handled(p) :
            LET out == <<cmd[p].out, path[2]>> IN
            \/ \E same \in Range(listed[p]) :
                  /\ same[2] = path[2]
                  /\ Parses(file[same])
                  /\ file[out] = Text(<<"vector", TxOf(file[same])>>)
            \/ target[p] = out /\ (pc[p] = "write" \/ out \in hurt)

(* what may be wrong with an input *)
Faulty(path) == ~Parses(file[path]) \/ TxOf(file[path]) \in Unbuildable

(***************************************************************************)
(* A run over a directory fails only when there is a reason: a file with   *)
(* the right ending that is no transaction file or cannot be exported, or  *)
(* a directory where the vector should go.  Nothing that an earlier run    *)
(* left in the output directory, torn or whole, is a reason.               *)
(***************************************************************************)
FailuresHaveReasons ==
    \A p \in Process :
        alone[p] /\ Separate(p) /\ result[p] = "failed" =>
            \/ cmd[p].out = None
            \/ cmd[p].input \in Path
            \/ \E path \in Path :
                  /\ path[1] \in Tree[cmd[p].input] /\ path[2] \in JsonName
                  /\ file[path] # None
                  /\ Faulty(path) \/ file[<<cmd[p].out, path[2]>>] = Directory

(* Every command comes to an end, however many files and other runs. *)
CommandsEnd == \A p \in Process : pc[p] # "idle" ~> pc[p] = "idle"
=============================================================================
