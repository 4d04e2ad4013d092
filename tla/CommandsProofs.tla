---------------------------- MODULE CommandsProofs ----------------------------
(***************************************************************************)
(* The files of any number of runs over any directories (Inv), and what a  *)
(* batch that runs alone makes of its inputs (BatchInv).                   *)
(***************************************************************************)
EXTENDS Commands, FiniteSetTheorems, TLAPS

(* the texts a file may hold *)
Texts == BoundedSeq(Piece, Pieces)

(* rest is the end of all *)
Rest(all, rest) ==
    /\ Len(rest) <= Len(all)
    /\ \A j \in 1 .. Len(rest) : rest[j] = all[Len(all) - Len(rest) + j]

Types ==
    /\ initial \in InitialFiles
    /\ file \in [Path -> Texts \cup {None, Directory}]
    /\ pc \in [Process -> {"idle", "fetch", "loop", "export", "create", "write"}]
    /\ cmd \in [Process -> Command \cup {None}]
    /\ listed \in [Process -> Seq(Path)] /\ todo \in [Process -> Seq(Path)]
    /\ \A p \in Process : IsInjective(listed[p]) /\ Rest(listed[p], todo[p])
    /\ doc \in [Process -> Document \cup {None}]
    /\ target \in [Process -> Path \cup {None}]
    /\ written \in [Process -> 0 .. Pieces]
    /\ result \in [Process -> {"ok", "failed", "killed", None}]
    /\ alone \in [Process -> BOOLEAN]
    /\ hurt \in SUBSET Path
    /\ starts \in 0 .. MaxStarts /\ kills \in 0 .. MaxKills

(* what a run has, at each place of its program *)
Phase(p) ==
    /\ pc[p] # "idle" => cmd[p] \in Command /\ cmd[p].out \in Dir /\ result[p] = None
    /\ pc[p] = "fetch" => cmd[p].op # "from_file" /\ cmd[p].name \in DOMAIN Hash
    /\ pc[p] = "loop" => cmd[p].op = "from_file"
    /\ pc[p] \in {"export", "create", "write"} => doc[p] \in Document /\ target[p] \in Path
    /\ pc[p] = "write" => written[p] < Pieces /\ file[target[p]] \in Texts

Typed == Types /\ \A p \in Process : Phase(p)

-----------------------------------------------------------------------------
(* Texts, and the lists of a run *)

(* A text is a sequence of at most as many pieces as a document has. *)
LEMMA TextsAre ==
    ASSUME NEW c
    PROVE  c \in Texts <=> c \in Seq(Piece) /\ Len(c) <= Pieces
<1>1. Pieces \in Nat
    BY CommandsAssumption
<1>2. c \in Texts <=> \E m \in 0 .. Pieces : c \in [1 .. m -> Piece]
    BY DEF Texts, BoundedSeq, SeqOf
<1> QED BY <1>1, <1>2

LEMMA PieceTypes ==
    /\ Hole \in Piece
    /\ \A d \in Document, k \in 1 .. Pieces : <<d, k>> \in Piece /\ <<d, k>> # Hole
BY CommandsAssumption DEF Piece, Hole

(* The whole text of a document *)
LEMMA TextOf ==
    ASSUME NEW d \in Document
    PROVE  /\ Text(d) \in Texts /\ Len(Text(d)) = Pieces
           /\ Text(d) # None /\ Text(d) # Directory
           /\ \A k \in 1 .. Pieces : Text(d)[k] = <<d, k>>
<1>1. Pieces \in Nat
    BY CommandsAssumption
<1>2. /\ Text(d) \in Seq(Piece) /\ Len(Text(d)) = Pieces
      /\ \A k \in 1 .. Pieces : Text(d)[k] = <<d, k>>
    BY <1>1, PieceTypes DEF Text
<1> QED BY <1>1, <1>2, TextsAre, NoneAssumption DEF Texts

(* A write at a position beyond the end leaves holes before it. *)
LEMMA WriteAtIs ==
    ASSUME NEW c \in Texts, NEW k \in 1 .. Pieces, NEW piece \in Piece
    PROVE  LET w == WriteAt(c, k, piece)
           IN  /\ w \in Texts
               /\ Len(w) = IF Len(c) >= k THEN Len(c) ELSE k
               /\ \A j \in 1 .. Len(w) :
                     w[j] = IF j = k THEN piece ELSE IF j <= Len(c) THEN c[j] ELSE Hole
<1> DEFINE n == IF Len(c) >= k THEN Len(c) ELSE k
           w == WriteAt(c, k, piece)
<1>1. Pieces \in Nat
    BY CommandsAssumption
<1>2. c \in Seq(Piece) /\ Len(c) <= Pieces
    BY TextsAre
<1>3. Max({Len(c), k}) = n
  <2>1. n \in {Len(c), k} /\ \A y \in {Len(c), k} : n >= y
      BY <1>1, <1>2
  <2>2. \A x \in {Len(c), k} : (\A y \in {Len(c), k} : x >= y) => x = n
      BY <1>1, <1>2
  <2> HIDE DEF n
  <2> QED BY <2>1, <2>2 DEF Max
<1>4. n \in Nat /\ n <= Pieces
    BY <1>1, <1>2
<1>5. w = [j \in 1 .. n |-> IF j = k THEN piece ELSE IF j \in DOMAIN c THEN c[j] ELSE Hole]
    BY <1>3 DEF WriteAt
<1>6. DOMAIN c = 1 .. Len(c)
    BY <1>2
<1> HIDE DEF w, n
<1>7. w \in Seq(Piece) /\ Len(w) = n
    BY <1>2, <1>4, <1>5, <1>6, PieceTypes
<1> QED BY <1>4, <1>5, <1>6, <1>7, TextsAre DEF w, n

(* A listing has each of its paths once. *)
LEMMA ListingsType ==
    ASSUME NEW S \in SUBSET Path, NEW s \in Listings(S)
    PROVE  s \in Seq(Path) /\ IsInjective(s) /\ Range(s) \subseteq S
<1>1. IsFiniteSet(Path)
    BY CommandsAssumption, FS_Product DEF Path
<1>2. Cardinality(S) \in Nat
    BY <1>1, FS_Subset, FS_CardinalityType
<1>3. s \in [1 .. Cardinality(S) -> S] /\ IsInjective(s)
    BY DEF Listings
<1> QED BY <1>2, <1>3 DEF Range

(* The next path of the loop *)
LEMMA RestTail ==
    ASSUME NEW all \in Seq(Path), NEW rest \in Seq(Path), Rest(all, rest), rest # <<>>
    PROVE  /\ Tail(rest) \in Seq(Path) /\ Rest(all, Tail(rest))
           /\ Len(Tail(rest)) = Len(rest) - 1
           /\ Head(rest) = all[Len(all) - Len(Tail(rest))]
           /\ Head(rest) \in Path /\ Head(rest) \in Range(all)
BY DEF Rest, Range

-----------------------------------------------------------------------------
(* A step that ends a run, without a change of the files *)

Closes(p, how) ==
    /\ pc[p] \notin {"idle", "write"}
    /\ Ends(p, how)
    /\ UNCHANGED <<given, file, todo, doc, target, written, hurt, kills>>

LEMMA Closing ==
    ASSUME NEW p \in Process,
           FetchFails(p) \/ ReadFails(p) \/ ExportFails(p) \/ CreateFails(p) \/ Finish(p)
    PROVE  Closes(p, "ok") \/ Closes(p, "failed")
BY DEF FetchFails, ReadFails, ExportFails, CreateFails, Finish, Fails, Closes

-----------------------------------------------------------------------------
(* The types, action by action *)

(* Each action keeps the types and what a run has at its place. *)
LEMMA StartTyped ==
    ASSUME Typed, NEW p \in Process, NEW c \in Command, Start(p, c)
    PROVE  Typed'
<1>1. IsCommand(c)
    BY InstanceAssumption
<1>2. PICK files \in Listings(IF c.out # None /\ c.op = "from_file"
                             THEN Runnable(c.input) ELSE {}) :
          /\ listed' = [listed EXCEPT ![p] = files]
          /\ todo' = [todo EXCEPT ![p] = files]
    BY DEF Start
<1>3. files \in Seq(Path) /\ IsInjective(files)
  <2>1. (IF c.out # None /\ c.op = "from_file" THEN Runnable(c.input) ELSE {}) \subseteq Path
      BY DEF Runnable
  <2> QED BY <2>1, ListingsType
<1>4. Rest(files, files)
    BY <1>3 DEF Rest
<1>5. /\ pc[p] = "idle" /\ starts < MaxStarts /\ starts' = starts + 1
      /\ cmd' = [cmd EXCEPT ![p] = c]
      /\ alone' = [q \in Process |-> q = p /\ \A r \in Process : pc[r] = "idle"]
      /\ doc' = [doc EXCEPT ![p] = None] /\ target' = [target EXCEPT ![p] = None]
      /\ written' = [written EXCEPT ![p] = 0]
      /\ UNCHANGED <<file, initial, hurt, kills>>
    BY DEF Start
<1>6. /\ c.out = None => pc' = [pc EXCEPT ![p] = "idle"] /\ result' = [result EXCEPT ![p] = "failed"]
      /\ c.out # None =>
            /\ pc' = [pc EXCEPT ![p] = IF c.op = "from_file" THEN "loop" ELSE "fetch"]
            /\ result' = [result EXCEPT ![p] = None]
    BY DEF Start, Ends
<1>7. Types'
  <2>1. starts' \in 0 .. MaxStarts
      BY <1>5, CommandsAssumption DEF Typed, Types
  <2>2. listed' \in [Process -> Seq(Path)] /\ todo' \in [Process -> Seq(Path)]
      BY <1>2, <1>3 DEF Typed, Types
  <2>3. \A q \in Process : IsInjective(listed'[q]) /\ Rest(listed'[q], todo'[q])
      BY <1>2, <1>3, <1>4 DEF Typed, Types
  <2>4. /\ pc' \in [Process -> {"idle", "fetch", "loop", "export", "create", "write"}]
        /\ result' \in [Process -> {"ok", "failed", "killed", None}]
      BY <1>6 DEF Typed, Types
  <2>5. /\ cmd' \in [Process -> Command \cup {None}]
        /\ doc' \in [Process -> Document \cup {None}]
        /\ target' \in [Process -> Path \cup {None}]
        /\ written' \in [Process -> 0 .. Pieces]
        /\ alone' \in [Process -> BOOLEAN]
      BY <1>5, CommandsAssumption DEF Typed, Types
  <2> QED BY <1>5, <2>1, <2>2, <2>3, <2>4, <2>5 DEF Typed, Types
<1>8. ASSUME NEW q \in Process PROVE Phase(q)'
  <2>1. CASE q = p
    <3>1. pc'[p] = IF c.out = None THEN "idle" ELSE IF c.op = "from_file" THEN "loop" ELSE "fetch"
        BY <1>6 DEF Typed, Types
    <3>2. cmd'[p] = c /\ (c.out # None => result'[p] = None)
        BY <1>5, <1>6 DEF Typed, Types
    <3>3. c.out # None => c.out \in Dir
        BY <1>1 DEF IsCommand
    <3>4. c.op # "from_file" => c.name \in DOMAIN Hash
        BY <1>1 DEF IsCommand
    <3> QED BY <2>1, <3>1, <3>2, <3>3, <3>4 DEF Phase
  <2>2. CASE q # p
    <3>1. /\ pc'[q] = pc[q] /\ cmd'[q] = cmd[q] /\ doc'[q] = doc[q] /\ target'[q] = target[q]
          /\ written'[q] = written[q] /\ result'[q] = result[q] /\ file' = file
        BY <1>5, <1>6, <2>2 DEF Typed, Types
    <3> QED BY <3>1 DEF Typed, Phase
  <2> QED BY <2>1, <2>2
<1> QED BY <1>7, <1>8 DEF Typed

LEMMA FetchTyped ==
    ASSUME Typed, NEW p \in Process, Fetch(p)
    PROVE  Typed'
<1> DEFINE name == cmd[p].name
<1>1. /\ pc[p] = "fetch" /\ cmd[p].out \in Dir /\ name \in DOMAIN Hash
      /\ cmd[p].op # "from_file"
    BY DEF Fetch, Typed, Phase
<1>2. <<"detail", Hash[name]>> \in Document
    BY <1>1, CommandsAssumption DEF Document
<1>3. <<cmd[p].out, name>> \in Path
    BY <1>1, CommandsAssumption DEF Path
<1>4. Types'
    BY <1>2, <1>3 DEF Fetch, given, Typed, Types
<1>5. ASSUME NEW q \in Process PROVE Phase(q)'
    BY <1>1, <1>2, <1>3 DEF Fetch, given, Typed, Types, Phase
<1> QED BY <1>4, <1>5 DEF Typed

LEMMA ReadTyped ==
    ASSUME Typed, NEW p \in Process, Read(p)
    PROVE  Typed'
<1> DEFINE head == Head(todo[p])
<1>1. /\ pc[p] = "loop" /\ cmd[p].out \in Dir /\ cmd[p].op = "from_file"
      /\ todo[p] # <<>> /\ Parses(file[head])
    BY DEF Read, Take, Typed, Phase
<1>2. /\ Tail(todo[p]) \in Seq(Path) /\ Rest(listed[p], Tail(todo[p])) /\ head \in Path
    BY <1>1, RestTail DEF Typed, Types
<1>3. <<"detail", TxOf(file[head])>> \in Document
    BY <1>1 DEF Parses, TxOf, Document
<1>4. <<cmd[p].out, head[2]>> \in Path
    BY <1>1, <1>2 DEF Path
<1>5. Types'
    BY <1>2, <1>3, <1>4 DEF Read, Take, given, Typed, Types
<1>6. ASSUME NEW q \in Process PROVE Phase(q)'
    BY <1>1, <1>3, <1>4 DEF Read, Take, given, Typed, Types, Phase
<1> QED BY <1>5, <1>6 DEF Typed

LEMMA ExportTyped ==
    ASSUME Typed, NEW p \in Process, Export(p)
    PROVE  Typed'
<1>1. doc[p] \in Document /\ target[p] \in Path /\ pc[p] = "export"
    BY DEF Export, Typed, Phase
<1>2. <<"vector", doc[p][2]>> \in Document
    BY <1>1 DEF Document
<1>3. Types'
    BY <1>2 DEF Export, given, Typed, Types
<1>4. ASSUME NEW q \in Process PROVE Phase(q)'
    BY <1>1, <1>2 DEF Export, given, Typed, Types, Phase
<1> QED BY <1>3, <1>4 DEF Typed

LEMMA CreateTyped ==
    ASSUME Typed, NEW p \in Process, Create(p)
    PROVE  Typed'
<1>1. doc[p] \in Document /\ target[p] \in Path /\ pc[p] = "create"
    BY DEF Create, Open, Typed, Phase
<1>2. <<>> \in Texts
  <2>1. <<>> \in Seq(Piece) /\ Len(<<>>) <= Pieces
      BY CommandsAssumption
  <2> QED BY <2>1, TextsAre
<1>3. Types'
    BY <1>1, <1>2, CommandsAssumption DEF Create, Open, given, Typed, Types
<1>4. ASSUME NEW q \in Process PROVE Phase(q)'
  <2>1. pc'[q] = "write" => file'[target'[q]] \in Texts /\ written'[q] < Pieces
      BY <1>1, <1>2, CommandsAssumption DEF Create, Open, given, Typed, Types, Phase
  <2> QED BY <1>1, <2>1 DEF Create, Open, given, Typed, Types, Phase
<1> QED BY <1>3, <1>4 DEF Typed

(* what a write leaves *)
LEMMA WriteMakes ==
    ASSUME Typed, NEW p \in Process, Write(p)
    PROVE  LET k == written[p] + 1
               c == file[target[p]]
               w == WriteAt(c, k, <<doc[p], k>>)
           IN  /\ doc[p] \in Document /\ target[p] \in Path /\ pc[p] = "write"
               /\ k \in 1 .. Pieces /\ c \in Texts /\ w \in Texts
               /\ Len(w) = IF Len(c) >= k THEN Len(c) ELSE k
               /\ \A j \in 1 .. Len(w) :
                     w[j] = IF j = k THEN <<doc[p], k>> ELSE IF j <= Len(c) THEN c[j] ELSE Hole
               /\ written' = [written EXCEPT ![p] = k]
               /\ file' = [file EXCEPT ![target[p]] = w]
               /\ pc' = [pc EXCEPT ![p] = IF k < Pieces THEN "write"
                                          ELSE IF cmd[p].op = "from_file" THEN "loop" ELSE "idle"]
               /\ result' = [result EXCEPT ![p] = IF k < Pieces \/ cmd[p].op = "from_file"
                                                  THEN None ELSE "ok"]
<1> DEFINE k == written[p] + 1
           c == file[target[p]]
           w == WriteAt(c, k, <<doc[p], k>>)
<1>1. /\ doc[p] \in Document /\ target[p] \in Path /\ pc[p] = "write"
      /\ written[p] < Pieces /\ c \in Texts /\ result[p] = None
    BY DEF Write, Typed, Phase
<1>2. k \in 1 .. Pieces
    BY <1>1, CommandsAssumption DEF Typed, Types
<1>3. <<doc[p], k>> \in Piece
    BY <1>1, <1>2, PieceTypes
<1>4. /\ w \in Texts /\ Len(w) = IF Len(c) >= k THEN Len(c) ELSE k
      /\ \A j \in 1 .. Len(w) :
            w[j] = IF j = k THEN <<doc[p], k>> ELSE IF j <= Len(c) THEN c[j] ELSE Hole
  <2> HIDE DEF k, c
  <2> QED BY <1>1, <1>2, <1>3, WriteAtIs
<1>5. written' = [written EXCEPT ![p] = k] /\ written'[p] = k
    BY DEF Write, Typed, Types
<1>6. file' = [file EXCEPT ![target[p]] = w]
    BY <1>5 DEF Write
<1>7. IF k < Pieces THEN UNCHANGED <<pc, result>>
      ELSE IF cmd[p].op = "from_file"
           THEN pc' = [pc EXCEPT ![p] = "loop"] /\ UNCHANGED result
           ELSE Ends(p, "ok")
    BY <1>5 DEF Write
<1> HIDE DEF k, c, w
<1>8. pc' = [pc EXCEPT ![p] = IF k < Pieces THEN "write"
                              ELSE IF cmd[p].op = "from_file" THEN "loop" ELSE "idle"]
    BY <1>1, <1>7 DEF Ends, Typed, Types
<1>9. result' = [result EXCEPT ![p] = IF k < Pieces \/ cmd[p].op = "from_file"
                                      THEN None ELSE "ok"]
    BY <1>1, <1>7 DEF Ends, Typed, Types
<1> QED BY <1>1, <1>2, <1>4, <1>5, <1>6, <1>8, <1>9 DEF k, c, w

LEMMA WriteTyped ==
    ASSUME Typed, NEW p \in Process, Write(p)
    PROVE  Typed'
<1> DEFINE k == written[p] + 1
           w == WriteAt(file[target[p]], k, <<doc[p], k>>)
<1>1. /\ doc[p] \in Document /\ target[p] \in Path /\ pc[p] = "write"
      /\ k \in 1 .. Pieces /\ w \in Texts
      /\ written' = [written EXCEPT ![p] = k]
      /\ file' = [file EXCEPT ![target[p]] = w]
      /\ pc' = [pc EXCEPT ![p] = IF k < Pieces THEN "write"
                                 ELSE IF cmd[p].op = "from_file" THEN "loop" ELSE "idle"]
      /\ result' = [result EXCEPT ![p] = IF k < Pieces \/ cmd[p].op = "from_file"
                                         THEN None ELSE "ok"]
    BY WriteMakes
<1>2. UNCHANGED <<given, todo, doc, target, hurt, kills>>
    BY DEF Write
<1> HIDE DEF k, w
<1>3. Types'
    BY <1>1, <1>2, CommandsAssumption DEF given, Typed, Types
<1>4. ASSUME NEW q \in Process PROVE Phase(q)'
  <2>1. pc'[q] = "write" => file'[target'[q]] \in Texts /\ written'[q] < Pieces
      BY <1>1, <1>2, CommandsAssumption DEF Typed, Types, Phase
  <2>2. /\ cmd' = cmd /\ doc' = doc /\ target' = target
        /\ pc'[q] \notin {"idle", "loop"} => pc[q] = pc'[q]
        /\ pc'[q] # "idle" => pc[q] # "idle" /\ result'[q] = None
        /\ pc'[q] = "loop" => cmd[q].op = "from_file"
      BY <1>1, <1>2 DEF given, Typed, Types, Phase
  <2> QED BY <2>1, <2>2 DEF Typed, Phase
<1> QED BY <1>3, <1>4 DEF Typed

LEMMA CloseTyped ==
    ASSUME Typed, NEW p \in Process, Closes(p, "ok") \/ Closes(p, "failed")
    PROVE  Typed'
<1>1. Types'
    BY DEF Closes, Ends, given, Typed, Types
<1>2. ASSUME NEW q \in Process PROVE Phase(q)'
    BY DEF Closes, Ends, given, Typed, Types, Phase
<1> QED BY <1>1, <1>2 DEF Typed

LEMMA KillTyped ==
    ASSUME Typed, NEW p \in Process, Kill(p)
    PROVE  Typed'
<1>1. Types'
  <2>1. kills' \in 0 .. MaxKills
      BY CommandsAssumption DEF Kill, Typed, Types
  <2>2. hurt' \in SUBSET Path
      BY DEF Kill, Typed, Types, Phase
  <2> QED BY <2>1, <2>2 DEF Kill, Ends, given, Typed, Types
<1>2. ASSUME NEW q \in Process PROVE Phase(q)'
    BY DEF Kill, Ends, given, Typed, Types, Phase
<1> QED BY <1>1, <1>2 DEF Typed

-----------------------------------------------------------------------------
(***************************************************************************)
(* Files are torn by interruptions only.  While a path is not hurt, all    *)
(* its writers write one document, and every piece of it is in the file or *)
(* still to be written by one of them; so the last of them leaves it whole.*)
(***************************************************************************)
(* a run that has the file open *)
Writes(p, path) == pc[p] = "write" /\ target[p] = path

Mended(path) ==
    \/ path \in hurt
    \/ /\ (\A p \in Process : ~Writes(p, path)) => IsWhole(file[path])
       /\ \A p, q \in Process : Writes(p, path) /\ Writes(q, path) => doc[p] = doc[q]
       /\ \A p \in Process : Writes(p, path) =>
             \A k \in 1 .. Pieces :
                \/ k <= Len(file[path]) /\ file[path][k] = <<doc[p], k>>
                \/ \E q \in Process : Writes(q, path) /\ written[q] < k

(* Nothing is torn when neither a path nor its writers change. *)
LEMMA StaysMended ==
    ASSUME NEW path \in Path, Mended(path),
           file'[path] = file[path], path \in hurt => path \in hurt',
           \A q \in Process : /\ Writes(q, path)' <=> Writes(q, path)
                              /\ Writes(q, path) => doc'[q] = doc[q] /\ written'[q] = written[q]
    PROVE  Mended(path)'
<1>1. CASE path \in hurt
    BY <1>1 DEF Mended
<1>2. CASE path \notin hurt
  <2>1. (\A p \in Process : ~Writes(p, path)') => IsWhole(file'[path])
      BY <1>2 DEF Mended
  <2>2. \A p, q \in Process : Writes(p, path)' /\ Writes(q, path)' => doc'[p] = doc'[q]
      BY <1>2 DEF Mended
  <2>3. ASSUME NEW p \in Process, Writes(p, path)', NEW k \in 1 .. Pieces
        PROVE  \/ k <= Len(file'[path]) /\ file'[path][k] = <<doc'[p], k>>
               \/ \E q \in Process : Writes(q, path)' /\ written'[q] < k
      BY <1>2, <2>3 DEF Mended
  <2> QED BY <2>1, <2>2, <2>3 DEF Mended
<1> QED BY <1>1, <1>2

(* a step after which the writers and what they write are the same *)
LEMMA OtherMends ==
    ASSUME Typed, NEW p \in Process,
           \/ \E c \in Command : Start(p, c)
           \/ Fetch(p) \/ Read(p) \/ Export(p) \/ Closes(p, "ok") \/ Closes(p, "failed"),
           NEW path \in Path, Mended(path)
    PROVE  Mended(path)'
<1> DEFINE Aside ==
              /\ file' = file /\ hurt' = hurt
              /\ pc[p] # "write" /\ pc'[p] # "write"
              /\ \A q \in Process \ {p} : /\ pc'[q] = pc[q] /\ target'[q] = target[q]
                                          /\ doc'[q] = doc[q] /\ written'[q] = written[q]
<1>1. Aside
  <2>1. ASSUME NEW c \in Command, Start(p, c)
        PROVE  Aside
    <3>1. /\ pc[p] = "idle" /\ UNCHANGED <<file, hurt>>
          /\ doc' = [doc EXCEPT ![p] = None] /\ target' = [target EXCEPT ![p] = None]
          /\ written' = [written EXCEPT ![p] = 0]
        BY <2>1 DEF Start
    <3>2. \/ pc' = [pc EXCEPT ![p] = "idle"]
          \/ pc' = [pc EXCEPT ![p] = IF c.op = "from_file" THEN "loop" ELSE "fetch"]
        BY <2>1 DEF Start, Ends
    <3> QED BY <3>1, <3>2 DEF Typed, Types
  <2>2. CASE Fetch(p)
      BY <2>2 DEF Fetch, given, Typed, Types
  <2>3. CASE Read(p)
      BY <2>3 DEF Read, Take, given, Typed, Types
  <2>4. CASE Export(p)
      BY <2>4 DEF Export, given, Typed, Types
  <2>5. CASE Closes(p, "ok") \/ Closes(p, "failed")
      BY <2>5 DEF Closes, Ends, given, Typed, Types
  <2> HIDE DEF Aside
  <2> QED BY <2>1, <2>2, <2>3, <2>4, <2>5
<1>2. \A q \in Process : /\ Writes(q, path)' <=> Writes(q, path)
                         /\ Writes(q, path) => doc'[q] = doc[q] /\ written'[q] = written[q]
    BY <1>1 DEF Writes
<1> QED BY <1>1, <1>2, StaysMended

(* File::create makes a torn file whole, unless another text is being written. *)
LEMMA CreateMends ==
    ASSUME Typed, NEW p \in Process, Create(p), NEW path \in Path, Mended(path)
    PROVE  Mended(path)'
<1>1. /\ pc[p] = "create" /\ target[p] \in Path
      /\ file' = [file EXCEPT ![target[p]] = <<>>]
      /\ written' = [written EXCEPT ![p] = 0]
      /\ pc' = [pc EXCEPT ![p] = "write"]
      /\ hurt' = IF Contested(p) THEN hurt \cup {target[p]} ELSE hurt \ {target[p]}
      /\ doc' = doc /\ target' = target
    BY DEF Create, Open, Typed, Phase
<1>2. CASE path # target[p]
  <2>1. \A q \in Process : /\ Writes(q, path)' <=> Writes(q, path)
                           /\ Writes(q, path) => doc'[q] = doc[q] /\ written'[q] = written[q]
      BY <1>1, <1>2 DEF Writes, Typed, Types
  <2>2. file'[path] = file[path] /\ (path \in hurt => path \in hurt')
      BY <1>1, <1>2 DEF Typed, Types
  <2> QED BY <2>1, <2>2, StaysMended
<1>3. CASE path = target[p] /\ Contested(p)
    BY <1>1, <1>3 DEF Mended
<1>4. CASE path = target[p] /\ ~Contested(p)
  <2>1. Writes(p, path)' /\ written'[p] = 0
      BY <1>1, <1>4 DEF Writes, Typed, Types
  <2>2. \A q \in Process : Writes(q, path)' => doc'[q] = doc[p]
      BY <1>1, <1>4 DEF Writes, Contested, Typed, Types
  <2>3. \A k \in 1 .. Pieces : \E q \in Process : Writes(q, path)' /\ written'[q] < k
      BY <2>1
  <2> QED BY <2>1, <2>2, <2>3 DEF Mended
<1> QED BY <1>2, <1>3, <1>4

(* The last of the writers of one document leaves it whole. *)
LEMMA WriteMends ==
    ASSUME Typed, NEW p \in Process, Write(p), NEW path \in Path, Mended(path)
    PROVE  Mended(path)'
<1> DEFINE k == written[p] + 1
           c == file[target[p]]
           w == WriteAt(c, k, <<doc[p], k>>)
<1>1. /\ doc[p] \in Document /\ target[p] \in Path /\ pc[p] = "write"
      /\ k \in 1 .. Pieces /\ c \in Texts /\ w \in Texts
      /\ Len(w) = IF Len(c) >= k THEN Len(c) ELSE k
      /\ \A j \in 1 .. Len(w) :
            w[j] = IF j = k THEN <<doc[p], k>> ELSE IF j <= Len(c) THEN c[j] ELSE Hole
      /\ written' = [written EXCEPT ![p] = k]
      /\ file' = [file EXCEPT ![target[p]] = w]
      /\ pc' = [pc EXCEPT ![p] = IF k < Pieces THEN "write"
                                 ELSE IF cmd[p].op = "from_file" THEN "loop" ELSE "idle"]
    BY WriteMakes
<1>2. doc' = doc /\ target' = target /\ hurt' = hurt
    BY DEF Write
<1>3. written[p] \in Nat /\ Pieces \in Nat
    BY CommandsAssumption DEF Typed, Types
<1>4. CASE path # target[p]
  <2>1. \A q \in Process : /\ Writes(q, path)' <=> Writes(q, path)
                           /\ Writes(q, path) => doc'[q] = doc[q] /\ written'[q] = written[q]
      BY <1>1, <1>2, <1>4 DEF Writes, Typed, Types
  <2>2. file'[path] = file[path]
      BY <1>1, <1>4 DEF Typed, Types
  <2> QED BY <1>2, <2>1, <2>2, StaysMended
<1>5. CASE path = target[p] /\ path \in hurt
    BY <1>2, <1>5 DEF Mended
<1>6. CASE path = target[p] /\ path \notin hurt
  <2>1. file'[path] = w /\ file[path] = c
      BY <1>1, <1>6 DEF Typed, Types
  <2>2. Writes(p, path)
      BY <1>1, <1>6 DEF Writes
  <2>3. \A q \in Process : Writes(q, path)' => Writes(q, path) /\ doc'[q] = doc[p]
      BY <1>1, <1>2, <1>6, <2>2 DEF Writes, Mended, Typed, Types
  <2>4. ASSUME NEW j \in 1 .. Pieces
        PROVE  \/ j <= Len(w) /\ w[j] = <<doc[p], j>>
               \/ \E q \in Process : Writes(q, path)' /\ written'[q] < j
    <3>0. Len(c) \in Nat
        BY <1>1, TextsAre
    <3>1. CASE j = k
      <4> HIDE DEF w, k, c
      <4>1. k \in Nat /\ k <= Len(w)
          BY <1>1, <1>3, <3>0
      <4> QED BY <1>1, <3>1, <4>1
    <3>2. CASE j # k /\ j <= Len(c) /\ c[j] = <<doc[p], j>>
      <4>1. j <= Len(w)
          BY <1>1, <1>3, <3>0, <3>2
      <4> HIDE DEF w, k, c
      <4> QED BY <1>1, <3>0, <3>2, <4>1
    <3>3. CASE j # k /\ \E q \in Process : Writes(q, path) /\ written[q] < j
      <4>1. PICK q \in Process : Writes(q, path) /\ written[q] < j
          BY <3>3
      <4>2. CASE q # p
          BY <1>1, <1>2, <4>1, <4>2 DEF Writes, Typed, Types
      <4>3. CASE q = p
        <5>1. k < j /\ k < Pieces
            BY <1>1, <1>3, <3>3, <4>1, <4>3
        <5>2. Writes(p, path)' /\ written'[p] = k
            BY <1>1, <1>2, <1>6, <5>1 DEF Writes, Typed, Types
        <5> QED BY <5>1, <5>2
      <4> QED BY <4>2, <4>3
    <3>4. \/ j <= Len(c) /\ c[j] = <<doc[p], j>>
          \/ \E q \in Process : Writes(q, path) /\ written[q] < j
      <4> HIDE DEF w, c
      <4> QED BY <1>6, <2>1, <2>2 DEF Mended
    <3> HIDE DEF w, k, c
    <3> QED BY <3>1, <3>2, <3>3, <3>4
  <2>5. (\A q \in Process : ~Writes(q, path)') => IsWhole(w)
    <3> SUFFICES ASSUME \A q \in Process : ~Writes(q, path)' PROVE IsWhole(w)
        OBVIOUS
    <3>1. \A j \in 1 .. Pieces : j <= Len(w) /\ w[j] = <<doc[p], j>>
        BY <2>4
    <3>2. w \in Seq(Piece) /\ Len(w) <= Pieces
        BY <1>1, TextsAre
    <3>3. Pieces \in 1 .. Pieces
        BY CommandsAssumption
    <3> HIDE DEF w
    <3>4. Len(w) = Pieces
        BY <1>3, <3>1, <3>2, <3>3
    <3>5. w = [j \in 1 .. Pieces |-> w[j]]
        BY <3>2, <3>4
    <3>6. w = Text(doc[p])
        BY <3>1, <3>5 DEF Text
    <3> QED BY <1>1, <3>6 DEF IsWhole
  <2> HIDE DEF w, k, c
  <2> QED BY <1>2, <2>1, <2>3, <2>4, <2>5 DEF Mended
<1> QED BY <1>4, <1>5, <1>6

(* A writer that is killed leaves its path hurt. *)
LEMMA KillMends ==
    ASSUME Typed, NEW p \in Process, Kill(p), NEW path \in Path, Mended(path)
    PROVE  Mended(path)'
<1>1. /\ hurt' = IF pc[p] = "write" THEN hurt \cup {target[p]} ELSE hurt
      /\ pc' = [pc EXCEPT ![p] = "idle"]
      /\ file' = file /\ doc' = doc /\ target' = target /\ written' = written
    BY DEF Kill, Ends
<1>2. CASE Writes(p, path)
    BY <1>1, <1>2 DEF Writes, Mended
<1>3. CASE ~Writes(p, path)
  <2>1. \A q \in Process : Writes(q, path)' <=> Writes(q, path)
      BY <1>1, <1>3 DEF Writes, Typed, Types
  <2> QED BY <1>1, <2>1, StaysMended
<1> QED BY <1>2, <1>3

-----------------------------------------------------------------------------
(***************************************************************************)
(* Whose text a file is.  A document in memory already has an origin under *)
(* the name it will be written to.                                         *)
(***************************************************************************)
Sourced ==
    /\ TextsHaveOrigins
    /\ \A p \in Process : pc[p] \in {"export", "create", "write"} =>
          doc[p][2] \in Origins(target[p][2])

(* steps that change no file and make no document *)
LEMMA QuietSourced ==
    ASSUME Typed, Sourced, file' = file, initial' = initial,
           \A q \in Process :
              pc'[q] \in {"export", "create", "write"} =>
                 /\ pc[q] \in {"export", "create", "write"}
                 /\ target'[q] = target[q] /\ doc'[q][2] = doc[q][2]
    PROVE  Sourced'
<1>1. \A name : Origins(name)' = Origins(name)
    BY DEF Origins, Bare
<1>2. TextsHaveOrigins'
    BY <1>1 DEF Sourced, TextsHaveOrigins, Bare
<1>3. \A q \in Process : pc'[q] \in {"export", "create", "write"} =>
          doc'[q][2] \in Origins(target'[q][2])
    BY DEF Sourced
<1> QED BY <1>1, <1>2, <1>3 DEF Sourced

(* Each action gives texts to names that stand for them. *)
LEMMA StartSourced ==
    ASSUME Typed, Sourced, NEW p \in Process, NEW c \in Command, Start(p, c)
    PROVE  Sourced'
<1>1. /\ file' = file /\ initial' = initial
      /\ doc' = [doc EXCEPT ![p] = None] /\ target' = [target EXCEPT ![p] = None]
    BY DEF Start
<1>2. \/ pc' = [pc EXCEPT ![p] = "idle"]
      \/ pc' = [pc EXCEPT ![p] = IF c.op = "from_file" THEN "loop" ELSE "fetch"]
    BY DEF Start, Ends
<1>3. \A q \in Process :
          pc'[q] \in {"export", "create", "write"} =>
             /\ pc[q] \in {"export", "create", "write"}
             /\ target'[q] = target[q] /\ doc'[q][2] = doc[q][2]
    BY <1>1, <1>2 DEF Typed, Types
<1> QED BY <1>1, <1>3, QuietSourced

LEMMA FetchSourced ==
    ASSUME Typed, Sourced, NEW p \in Process, Fetch(p)
    PROVE  Sourced'
<1> DEFINE name == cmd[p].name
<1>1. name \in DOMAIN Hash
    BY DEF Fetch, Typed, Phase
<1>2. /\ file' = file /\ initial' = initial
      /\ doc' = [doc EXCEPT ![p] = <<"detail", Hash[name]>>]
      /\ target' = [target EXCEPT ![p] = <<cmd[p].out, name>>]
      /\ \A q \in Process \ {p} : pc'[q] = pc[q]
    BY DEF Fetch, given, Typed, Types
<1>3. \A n : Origins(n)' = Origins(n)
    BY <1>2 DEF Origins, Bare
<1>4. Hash[name] \in Origins(name)
    BY <1>1 DEF Origins
<1>5. TextsHaveOrigins'
    BY <1>2, <1>3 DEF Sourced, TextsHaveOrigins, Bare
<1>6. \A q \in Process : pc'[q] \in {"export", "create", "write"} =>
          doc'[q][2] \in Origins(target'[q][2])
    BY <1>2, <1>4 DEF Sourced, Typed, Types
<1> QED BY <1>3, <1>5, <1>6 DEF Sourced

(* A text of a transaction is found under a name of the transaction. *)
LEMMA ParsedHasOrigin ==
    ASSUME Sourced, NEW path \in Path, Parses(file[path])
    PROVE  TxOf(file[path]) \in Origins(path[2])
<1> DEFINE tx == TxOf(file[path])
           d  == <<"detail", tx>>
<1>1. d \in Document /\ file[path] = Text(d)
    BY DEF Parses, TxOf, Document
<1> HIDE DEF d
<1>2. path \notin Bare(file)
    BY <1>1, TextOf DEF Bare
<1>3. 1 \in 1 .. Pieces
    BY CommandsAssumption
<1>4. <<d, 1>> \in Range(file[path]) /\ <<d, 1>> # Hole
  <2>1. Text(d)[1] = <<d, 1>> /\ 1 \in DOMAIN Text(d)
      BY <1>1, <1>3, TextOf DEF Text
  <2> QED BY <1>1, <1>3, <2>1, PieceTypes DEF Range
<1>5. <<d, 1>>[1][2] \in Origins(path[2])
    BY <1>2, <1>4 DEF Sourced, TextsHaveOrigins
<1> QED BY <1>5 DEF d

LEMMA ReadSourced ==
    ASSUME Typed, Sourced, NEW p \in Process, Read(p)
    PROVE  Sourced'
<1> DEFINE head == Head(todo[p])
           tx   == TxOf(file[head])
<1>1. todo[p] # <<>> /\ Parses(file[head])
    BY DEF Read, Take
<1>2. head \in Path
    BY <1>1, RestTail DEF Typed, Types
<1>3. tx \in Origins(head[2])
    BY <1>1, <1>2, ParsedHasOrigin
<1>4. /\ file' = file /\ initial' = initial
      /\ doc' = [doc EXCEPT ![p] = <<"detail", tx>>]
      /\ target' = [target EXCEPT ![p] = <<cmd[p].out, head[2]>>]
      /\ \A q \in Process \ {p} : pc'[q] = pc[q]
    BY DEF Read, Take, given, Typed, Types
<1>5. \A n : Origins(n)' = Origins(n)
    BY <1>4 DEF Origins, Bare
<1>6. TextsHaveOrigins'
    BY <1>4, <1>5 DEF Sourced, TextsHaveOrigins, Bare
<1> HIDE DEF head, tx
<1>7. \A q \in Process : pc'[q] \in {"export", "create", "write"} =>
          doc'[q][2] \in Origins(target'[q][2])
    BY <1>3, <1>4 DEF Sourced, Typed, Types
<1> QED BY <1>5, <1>6, <1>7 DEF Sourced

LEMMA ExportSourced ==
    ASSUME Typed, Sourced, NEW p \in Process, Export(p)
    PROVE  Sourced'
<1>1. /\ file' = file /\ initial' = initial /\ target' = target
      /\ pc[p] = "export" /\ pc' = [pc EXCEPT ![p] = "create"]
      /\ doc' = [doc EXCEPT ![p] = <<"vector", doc[p][2]>>]
    BY DEF Export, given
<1>2. \A q \in Process :
          pc'[q] \in {"export", "create", "write"} =>
             /\ pc[q] \in {"export", "create", "write"}
             /\ target'[q] = target[q] /\ doc'[q][2] = doc[q][2]
    BY <1>1 DEF Typed, Types
<1> QED BY <1>1, <1>2, QuietSourced

(* a file that is changed to pieces that are there or have an origin *)
LEMMA ChangedSourced ==
    ASSUME Typed, Sourced, NEW out \in Path, NEW w,
           file' = [file EXCEPT ![out] = w],
           \A piece \in Range(w) : piece = Hole \/ piece[1][2] \in Origins(out[2]),
           initial' = initial, doc' = doc, target' = target,
           \A q \in Process :
              pc'[q] \in {"export", "create", "write"} => pc[q] \in {"export", "create", "write"}
    PROVE  Sourced'
<1>1. \A n : Origins(n)' = Origins(n)
    BY DEF Origins, Bare
<1>2. ASSUME NEW path \in Path \ Bare(file)', NEW piece \in Range(file'[path])
      PROVE  piece = Hole \/ piece[1][2] \in Origins(path[2])
  <2>1. CASE path = out
      BY <2>1, <1>2 DEF Typed, Types
  <2>2. CASE path # out
    <3>1. file'[path] = file[path] /\ path \notin Bare(file)
        BY <1>2, <2>2 DEF Typed, Types, Bare
    <3> QED BY <1>2, <3>1 DEF Sourced, TextsHaveOrigins
  <2> QED BY <2>1, <2>2
<1>3. TextsHaveOrigins'
    BY <1>1, <1>2 DEF TextsHaveOrigins
<1>4. \A q \in Process : pc'[q] \in {"export", "create", "write"} =>
          doc'[q][2] \in Origins(target'[q][2])
    BY DEF Sourced
<1> QED BY <1>1, <1>3, <1>4 DEF Sourced

LEMMA CreateSourced ==
    ASSUME Typed, Sourced, NEW p \in Process, Create(p)
    PROVE  Sourced'
<1>1. /\ target[p] \in Path /\ pc[p] = "create"
      /\ file' = [file EXCEPT ![target[p]] = <<>>]
      /\ initial' = initial /\ doc' = doc /\ target' = target
      /\ pc' = [pc EXCEPT ![p] = "write"]
    BY DEF Create, Open, given, Typed, Phase
<1>2. Range(<<>>) = {}
    BY DEF Range
<1>3. \A q \in Process :
          pc'[q] \in {"export", "create", "write"} => pc[q] \in {"export", "create", "write"}
    BY <1>1 DEF Typed, Types
<1> QED BY <1>1, <1>2, <1>3, ChangedSourced

LEMMA WriteSourced ==
    ASSUME Typed, Sourced, NEW p \in Process, Write(p)
    PROVE  Sourced'
<1> DEFINE out == target[p]
           k == written[p] + 1
           c == file[out]
           w == WriteAt(c, k, <<doc[p], k>>)
<1>1. /\ doc[p] \in Document /\ out \in Path /\ pc[p] = "write"
      /\ k \in 1 .. Pieces /\ c \in Texts /\ w \in Texts
      /\ Len(w) = IF Len(c) >= k THEN Len(c) ELSE k
      /\ \A j \in 1 .. Len(w) :
            w[j] = IF j = k THEN <<doc[p], k>> ELSE IF j <= Len(c) THEN c[j] ELSE Hole
      /\ file' = [file EXCEPT ![out] = w]
      /\ pc' = [pc EXCEPT ![p] = IF k < Pieces THEN "write"
                                 ELSE IF cmd[p].op = "from_file" THEN "loop" ELSE "idle"]
    BY WriteMakes
<1>2. initial' = initial /\ doc' = doc /\ target' = target
    BY DEF Write, given
<1>3. doc[p][2] \in Origins(out[2])
    BY <1>1 DEF Sourced
<1>4. out \notin Bare(file)
    BY <1>1, NoneAssumption DEF Bare, Texts
<1> HIDE DEF w, c, k
<1>5. /\ DOMAIN w = 1 .. Len(w) /\ DOMAIN c = 1 .. Len(c)
      /\ Len(w) \in Nat /\ Len(c) \in Nat
    BY <1>1, TextsAre
<1>6. ASSUME NEW piece \in Range(w) PROVE piece = Hole \/ piece[1][2] \in Origins(out[2])
  <2>1. PICK j \in 1 .. Len(w) : piece = w[j]
      BY <1>5 DEF Range
  <2>2. \/ piece = <<doc[p], k>> \/ piece = Hole
        \/ j <= Len(c) /\ piece = c[j]
      BY <1>1, <2>1
  <2>3. ASSUME j <= Len(c), piece = c[j] PROVE piece \in Range(file[out])
      BY <1>5, <2>1, <2>3 DEF Range, c
  <2> QED BY <1>1, <1>3, <1>4, <2>2, <2>3 DEF Sourced, TextsHaveOrigins
<1>7. \A q \in Process :
          pc'[q] \in {"export", "create", "write"} => pc[q] \in {"export", "create", "write"}
    BY <1>1 DEF Typed, Types
<1> HIDE DEF out
<1> QED BY <1>1, <1>2, <1>6, <1>7, ChangedSourced DEF out

LEMMA EndSourced ==
    ASSUME Typed, Sourced, NEW p \in Process, Closes(p, "ok") \/ Closes(p, "failed") \/ Kill(p)
    PROVE  Sourced'
<1>1. /\ file' = file /\ initial' = initial /\ doc' = doc /\ target' = target
      /\ pc' = [pc EXCEPT ![p] = "idle"]
    BY DEF Closes, Kill, Ends, given
<1>2. \A q \in Process :
          pc'[q] \in {"export", "create", "write"} =>
             /\ pc[q] \in {"export", "create", "write"}
             /\ target'[q] = target[q] /\ doc'[q][2] = doc[q][2]
    BY <1>1 DEF Typed, Types
<1> QED BY <1>1, <1>2, QuietSourced

-----------------------------------------------------------------------------
(* The invariant *)

Inv == Typed /\ Sourced /\ \A path \in Path : Mended(path)

(* The contents of the properties are the texts of the invariant. *)
LEMMA Contents ==
    ASSUME NEW c
    PROVE  IsContent(c) <=> c \in Texts \cup {None, Directory}
BY DEF IsContent, Texts

LEMMA Begin == Init => Inv
<1> SUFFICES ASSUME Init PROVE Inv
    OBVIOUS
<1>1. /\ initial \in InitialFiles /\ file = initial
      /\ pc = [p \in Process |-> "idle"]
      /\ cmd = [p \in Process |-> None] /\ doc = cmd /\ target = cmd /\ result = cmd
      /\ listed = [p \in Process |-> <<>>] /\ todo = listed
      /\ written = [p \in Process |-> 0]
      /\ alone = [p \in Process |-> FALSE]
      /\ hurt = {path \in Path : ~IsWhole(initial[path])}
      /\ starts = 0 /\ kills = 0
    BY DEF Init
<1>2. file \in [Path -> Texts \cup {None, Directory}]
  <2>1. /\ file = [path \in Path |-> file[path]]
        /\ \A path \in Path : IsContent(file[path])
      BY <1>1, InstanceAssumption
  <2>2. \A path \in Path : file[path] \in Texts \cup {None, Directory}
      BY <2>1, Contents
  <2> QED BY <2>1, <2>2
<1>3. \A p \in Process : IsInjective(listed[p]) /\ Rest(listed[p], todo[p])
    BY <1>1 DEF IsInjective, Rest
<1>4. Types
  <2>1. listed \in [Process -> Seq(Path)] /\ todo \in [Process -> Seq(Path)]
      BY <1>1
  <2>2. /\ written \in [Process -> 0 .. Pieces]
        /\ starts \in 0 .. MaxStarts /\ kills \in 0 .. MaxKills
      BY <1>1, CommandsAssumption
  <2> QED BY <1>1, <1>2, <1>3, <2>1, <2>2 DEF Types
<1>5. Typed
    BY <1>1, <1>4 DEF Typed, Phase
<1>6. TextsHaveOrigins
  <2> SUFFICES ASSUME NEW path \in Path \ Bare(file), NEW piece \in Range(file[path]),
                      piece # Hole
               PROVE  piece[1][2] \in Origins(path[2])
      BY DEF TextsHaveOrigins
  <2>1. path = <<path[1], path[2]>> /\ path[1] \in Dir
      BY DEF Path
  <2>2. path \in {<<d, path[2]>> : d \in Dir} \ Bare(initial)
      BY <1>1, <2>1
  <2>3. piece[1][2] \in {x[1][2] : x \in Range(initial[path])}
      BY <1>1
  <2> QED BY <2>2, <2>3 DEF Origins
<1>7. Sourced
    BY <1>1, <1>6 DEF Sourced
<1>8. \A path \in Path : Mended(path)
    BY <1>1 DEF Mended, Writes
<1> QED BY <1>5, <1>7, <1>8 DEF Inv

(* the steps of the runs *)
LEMMA Steps ==
    ASSUME Next
    PROVE  \E p \in Process :
              \/ \E c \in Command : Start(p, c)
              \/ Fetch(p) \/ Read(p) \/ Export(p) \/ Create(p) \/ Write(p) \/ Kill(p)
              \/ Closes(p, "ok") \/ Closes(p, "failed")
<1>1. PICK p \in Process : Step(p) \/ Kill(p) \/ \E c \in Command : Start(p, c)
    BY DEF Next
<1>2. CASE Step(p)
  <2>1. \/ Fetch(p) \/ Read(p) \/ Export(p) \/ Create(p) \/ Write(p)
        \/ FetchFails(p) \/ ReadFails(p) \/ ExportFails(p) \/ CreateFails(p) \/ Finish(p)
      BY <1>2 DEF Step
  <2> QED BY <2>1, Closing
<1> QED BY <1>1, <1>2

(* The invariant is kept by every step, one part at a time. *)
LEMMA NextTyped == Typed /\ [Next]_vars => Typed'
<1> SUFFICES ASSUME Typed, [Next]_vars PROVE Typed'
    OBVIOUS
<1>1. CASE Next
    BY <1>1, Steps, StartTyped, FetchTyped, ReadTyped, ExportTyped, CreateTyped,
       WriteTyped, KillTyped, CloseTyped
<1>2. CASE UNCHANGED vars
    BY <1>2 DEF vars, Typed, Types, Phase
<1> QED BY <1>1, <1>2

LEMMA NextSourced == Typed /\ Sourced /\ [Next]_vars => Sourced'
<1> SUFFICES ASSUME Typed, Sourced, [Next]_vars PROVE Sourced'
    OBVIOUS
<1>1. CASE Next
    BY <1>1, Steps, StartSourced, FetchSourced, ReadSourced, ExportSourced, CreateSourced,
       WriteSourced, EndSourced
<1>2. CASE UNCHANGED vars
    BY <1>2, QuietSourced DEF vars
<1> QED BY <1>1, <1>2

LEMMA NextMended ==
    Typed /\ (\A path \in Path : Mended(path)) /\ [Next]_vars => \A path \in Path : Mended(path)'
<1> SUFFICES ASSUME Typed, [Next]_vars, NEW path \in Path, Mended(path)
             PROVE  Mended(path)'
    OBVIOUS
<1>1. CASE Next
    BY <1>1, Steps, OtherMends, CreateMends, WriteMends, KillMends
<1>2. CASE UNCHANGED vars
    BY <1>2, StaysMended DEF vars, Writes
<1> QED BY <1>1, <1>2

LEMMA InvNext == Inv /\ [Next]_vars => Inv'
BY NextTyped, NextSourced, NextMended DEF Inv

(***************************************************************************)
(* Any number of runs over any directories keep the invariant.             *)
(***************************************************************************)
THEOREM Invariance == Spec => []Inv
BY Begin, InvNext, PTL DEF Spec

(* The end of a list, as TypeOK writes it *)
LEMMA RestIs ==
    ASSUME NEW all \in Seq(Path), NEW rest \in Seq(Path), Rest(all, rest)
    PROVE  \E n \in 0 .. Len(all) : rest = SubSeq(all, n + 1, Len(all))
<1> DEFINE n == Len(all) - Len(rest)
           s == SubSeq(all, n + 1, Len(all))
<1>1. n \in 0 .. Len(all)
    BY DEF Rest
<1>2. s \in Seq(Path) /\ Len(s) = Len(rest) /\ \A i \in 1 .. Len(rest) : s[i] = rest[i]
    BY DEF Rest
<1>3. rest = s
  <2> HIDE DEF s
  <2> QED BY <1>2
<1> QED BY <1>1, <1>3

(* TypeOK: among the rest, the loop is always at the end of its list. *)
THEOREM TypeCorrect == Spec => []TypeOK
<1>1. Inv => TypeOK
  <2> SUFFICES ASSUME Inv PROVE TypeOK
      OBVIOUS
  <2>1. Types
      BY DEF Inv, Typed
  <2>2. DOMAIN file = Path /\ \A path \in Path : IsContent(file[path])
      BY <2>1, Contents DEF Types
  <2>3. \A p \in Process :
          /\ listed[p] \in Seq(Path) /\ IsInjective(listed[p])
          /\ \E n \in 0 .. Len(listed[p]) :
                todo[p] = SubSeq(listed[p], n + 1, Len(listed[p]))
      BY <2>1, RestIs DEF Types
  <2> QED BY <2>1, <2>2, <2>3 DEF Types, TypeOK
<1> QED BY <1>1, Invariance, PTL

(* OnlyInterruptionsTear: main.rs leaves a file torn only when it is killed,
   or writes it while another run writes another document to it. *)
THEOREM TornByInterruptionsOnly == Spec => []OnlyInterruptionsTear
<1>1. Inv => OnlyInterruptionsTear
    BY DEF Inv, Mended, Writes, OnlyInterruptionsTear
<1> QED BY <1>1, Invariance, PTL

(* TextsHaveOrigins: the files of extract, generate and the batch hold
   transactions that their names stand for. *)
THEOREM NamesTellTransactions == Spec => []TextsHaveOrigins
<1>1. Inv => TextsHaveOrigins
    BY DEF Inv, Sourced
<1> QED BY <1>1, Invariance, PTL

-----------------------------------------------------------------------------
(***************************************************************************)
(* A batch that runs alone: the inputs are what it found, the vectors of   *)
(* those it is through with are there, and a failure has a reason.         *)
(***************************************************************************)
Working(p) == alone[p] /\ Separate(p)

Out(p, path) == <<cmd[p].out, path[2]>>

(* the vector of path is there, or that of another input of the same name *)
Made(p, path) ==
    \E same \in Range(listed[p]) :
        /\ same[2] = path[2]
        /\ Parses(file[same])
        /\ file[Out(p, path)] = Text(<<"vector", TxOf(file[same])>>)

Taken(p)   == Len(listed[p]) - Len(todo[p])
Current(p) == listed[p][Taken(p)]
Busy(p)    == IF pc[p] = "loop" \/ result[p] = "ok" THEN 0 ELSE 1

(* the listing of WalkDir: such files, and no run has removed one *)
FromTree(p) ==
    cmd[p].input \notin Path =>
        \A path \in Range(listed[p]) :
            /\ path[1] \in Tree[cmd[p].input] /\ path[2] \in JsonName
            /\ file[path] # None

(* the document in memory is the next file's, and goes to its name *)
Holds(p) ==
    pc[p] \in {"export", "create", "write"} =>
        /\ Taken(p) \in 1 .. Len(listed[p])
        /\ target[p] = Out(p, Current(p))
        /\ Parses(file[Current(p)])
        /\ doc[p][2] = TxOf(file[Current(p)])
        /\ pc[p] # "export" => doc[p] = <<"vector", TxOf(file[Current(p)])>>

(* the part of the vector that is written *)
Progress(p) ==
    pc[p] = "write" =>
        /\ Len(file[target[p]]) = written[p]
        /\ \A k \in 1 .. written[p] : file[target[p]][k] = <<doc[p], k>>

(* the paths before the current one have their vectors *)
Handles(p) ==
    \A j \in 1 .. Taken(p) - Busy(p) :
        \/ Made(p, listed[p][j])
        \/ /\ target[p] = Out(p, listed[p][j])
           /\ pc[p] = "write" \/ (pc[p] = "idle" /\ target[p] \in hurt)

(* the reasons of FailuresHaveReasons *)
Reasoned(p) ==
    result[p] = "failed" =>
        \/ cmd[p].out = None
        \/ cmd[p].input \in Path
        \/ \E path \in Path :
              /\ path[1] \in Tree[cmd[p].input] /\ path[2] \in JsonName
              /\ file[path] # None
              /\ Faulty(path) \/ file[Out(p, path)] = Directory

Batch(p) == FromTree(p) /\ Holds(p) /\ Progress(p) /\ Handles(p) /\ Reasoned(p)

(* a run that is alone stays so until another one starts *)
Loner(p) == alone[p] => \A q \in Process \ {p} : pc[q] = "idle"

BatchInv == \A p \in Process : Loner(p) /\ (Working(p) => Batch(p))

(* what a batch has of its list *)
LEMMA ListOf ==
    ASSUME Typed, NEW p \in Process
    PROVE  /\ listed[p] \in Seq(Path) /\ todo[p] \in Seq(Path)
           /\ Len(listed[p]) \in Nat /\ Len(todo[p]) \in Nat
           /\ Taken(p) \in 0 .. Len(listed[p])
           /\ \A j \in 1 .. Len(listed[p]) : listed[p][j] \in Range(listed[p]) \cap Path
           /\ Range(listed[p]) \subseteq Path
BY DEF Typed, Types, Rest, Taken, Range

(* Each action of a batch keeps what is known of it. *)
LEMMA StartBatch ==
    ASSUME Typed, NEW p \in Process, NEW c \in Command, Start(p, c), Working(p)'
    PROVE  Batch(p)'
<1>1. PICK files \in Listings(IF c.out # None /\ c.op = "from_file"
                             THEN Runnable(c.input) ELSE {}) :
          /\ listed' = [listed EXCEPT ![p] = files]
          /\ todo' = [todo EXCEPT ![p] = files]
    BY DEF Start
<1>2. /\ cmd' = [cmd EXCEPT ![p] = c] /\ file' = file
      /\ c.out = None => pc' = [pc EXCEPT ![p] = "idle"] /\ result' = [result EXCEPT ![p] = "failed"]
      /\ c.out # None =>
            /\ pc' = [pc EXCEPT ![p] = IF c.op = "from_file" THEN "loop" ELSE "fetch"]
            /\ result' = [result EXCEPT ![p] = None]
    BY DEF Start, Ends
<1>3. /\ cmd'[p] = c /\ listed'[p] = files /\ todo'[p] = files
      /\ pc'[p] \in {"idle", "loop", "fetch"}
      /\ result'[p] = "failed" => c.out = None
    BY <1>1, <1>2, NoneAssumption DEF Typed, Types
<1>4. Range(files) \subseteq Runnable(c.input) /\ files \in Seq(Path)
  <2> DEFINE S == IF c.out # None /\ c.op = "from_file" THEN Runnable(c.input) ELSE {}
  <2>1. S \subseteq Path /\ S \subseteq Runnable(c.input)
      BY DEF Runnable
  <2>2. files \in Listings(S)
      BY <1>1
  <2> HIDE DEF S
  <2> QED BY <2>1, <2>2, ListingsType
<1>5. FromTree(p)'
    BY <1>2, <1>3, <1>4 DEF FromTree, Runnable
<1>6. Holds(p)' /\ Progress(p)'
    BY <1>3 DEF Holds, Progress
<1>7. Handles(p)'
    BY <1>3, <1>4 DEF Handles, Taken, Busy
<1>8. Reasoned(p)'
    BY <1>3 DEF Reasoned
<1> QED BY <1>5, <1>6, <1>7, <1>8 DEF Batch

LEMMA ReadBatch ==
    ASSUME Typed, NEW p \in Process, Read(p), Working(p), Batch(p)
    PROVE  Batch(p)'
<1> DEFINE head == Head(todo[p])
<1>1. /\ pc[p] = "loop" /\ todo[p] # <<>> /\ Parses(file[head])
      /\ doc' = [doc EXCEPT ![p] = <<"detail", TxOf(file[head])>>]
      /\ target' = [target EXCEPT ![p] = <<cmd[p].out, head[2]>>]
      /\ todo' = [todo EXCEPT ![p] = Tail(todo[p])]
      /\ pc' = [pc EXCEPT ![p] = "export"]
      /\ cmd' = cmd /\ listed' = listed /\ file' = file /\ result' = result
    BY DEF Read, Take, given
<1>2. result[p] = None
    BY <1>1 DEF Typed, Phase
<1>3. /\ pc'[p] = "export" /\ doc'[p] = <<"detail", TxOf(file[head])>>
      /\ target'[p] = <<cmd[p].out, head[2]>> /\ todo'[p] = Tail(todo[p])
    BY <1>1 DEF Typed, Types
<1>4. /\ Len(Tail(todo[p])) = Len(todo[p]) - 1 /\ Len(todo[p]) > 0
      /\ head = listed[p][Len(listed[p]) - Len(Tail(todo[p]))]
    BY <1>1, ListOf, RestTail DEF Typed, Types
<1>5. /\ Taken(p)' = Taken(p) + 1 /\ Taken(p)' \in 1 .. Len(listed[p])
      /\ Current(p)' = head
  <2>1. Taken(p)' = Len(listed[p]) - Len(Tail(todo[p])) /\ listed'[p] = listed[p]
      BY <1>1, <1>3 DEF Taken
  <2>2. /\ Taken(p) = Len(listed[p]) - Len(todo[p]) /\ Taken(p) \in 0 .. Len(listed[p])
        /\ Len(listed[p]) \in Nat /\ Len(todo[p]) \in Nat
      BY ListOf DEF Taken
  <2>3. Taken(p)' = Taken(p) + 1 /\ Taken(p)' \in 1 .. Len(listed[p])
    <3> DEFINE n    == Len(listed[p])
               m    == Len(todo[p])
               rest == Len(Tail(todo[p]))
    <3>1. /\ rest = m - 1 /\ m > 0 /\ m \in Nat /\ n \in Nat
          /\ Taken(p)' = n - rest /\ Taken(p) = n - m /\ Taken(p) \in 0 .. n
        BY <1>4, <2>1, <2>2
    <3> HIDE DEF n, m, rest
    <3>2. Taken(p)' = Taken(p) + 1 /\ Taken(p)' \in 1 .. n
        BY <3>1
    <3> QED BY <3>2 DEF n
  <2> QED BY <1>4, <2>1, <2>3 DEF Current
<1> HIDE DEF head
<1>6. FromTree(p)'
    BY <1>1 DEF Batch, FromTree
<1>7. Holds(p)' /\ Progress(p)'
    BY <1>1, <1>3, <1>5 DEF Holds, Progress, Out
<1>8. Handles(p)'
  <2>1. Taken(p)' - Busy(p)' = Taken(p) - Busy(p)
      BY <1>1, <1>2, <1>3, <1>5, ListOf, NoneAssumption DEF Busy
  <2>2. ASSUME NEW j \in 1 .. Taken(p) - Busy(p) PROVE Made(p, listed[p][j])
      BY <1>1 DEF Batch, Handles
  <2>3. \A j : Made(p, listed[p][j])' <=> Made(p, listed[p][j])
      BY <1>1 DEF Made, Out
  <2> QED BY <2>1, <2>2, <2>3 DEF Handles
<1>9. Reasoned(p)'
    BY <1>1, <1>2, NoneAssumption DEF Reasoned
<1> QED BY <1>6, <1>7, <1>8, <1>9 DEF Batch

LEMMA ExportBatch ==
    ASSUME Typed, NEW p \in Process, Export(p), Working(p), Batch(p)
    PROVE  Batch(p)'
<1>1. /\ pc[p] = "export"
      /\ doc' = [doc EXCEPT ![p] = <<"vector", doc[p][2]>>]
      /\ pc' = [pc EXCEPT ![p] = "create"]
      /\ cmd' = cmd /\ listed' = listed /\ file' = file /\ result' = result
      /\ todo' = todo /\ target' = target
    BY DEF Export, given
<1>2. result[p] = None
    BY <1>1 DEF Typed, Phase
<1>3. pc'[p] = "create" /\ doc'[p] = <<"vector", doc[p][2]>>
    BY <1>1 DEF Typed, Types, Phase
<1>4. FromTree(p)'
    BY <1>1 DEF Batch, FromTree
<1>5. Holds(p)' /\ Progress(p)'
  <2>1. /\ Taken(p) \in 1 .. Len(listed[p]) /\ target[p] = Out(p, Current(p))
        /\ Parses(file[Current(p)]) /\ doc[p][2] = TxOf(file[Current(p)])
      BY <1>1 DEF Batch, Holds
  <2>2. /\ Taken(p)' = Taken(p) /\ Current(p)' = Current(p)
        /\ Out(p, Current(p))' = Out(p, Current(p))
      BY <1>1 DEF Taken, Current, Out
  <2>3. doc'[p] = <<"vector", TxOf(file[Current(p)])>>
      BY <1>3, <2>1
  <2> QED BY <1>1, <1>3, <2>1, <2>2, <2>3 DEF Holds, Progress
<1>6. Handles(p)'
    BY <1>1, <1>2, <1>3, NoneAssumption DEF Batch, Handles, Made, Out, Taken, Busy
<1>7. Reasoned(p)'
    BY <1>1, <1>2, NoneAssumption DEF Reasoned
<1> QED BY <1>4, <1>5, <1>6, <1>7 DEF Batch

(* a step that ends the run, if a failure has a reason *)
LEMMA EndBatch ==
    ASSUME Typed, NEW p \in Process, Working(p), Batch(p), NEW how \in {"ok", "failed", "killed"},
           pc[p] # "idle", Ends(p, how),
           UNCHANGED <<given, file, todo, doc, target, written>>,
           pc[p] = "write" => target[p] \in hurt',
           how = "ok" => pc[p] = "loop",
           how = "failed" => Reasoned(p)'
    PROVE  Batch(p)'
<1>1. /\ cmd' = cmd /\ listed' = listed /\ file' = file /\ todo' = todo /\ target' = target
      /\ pc'[p] = "idle" /\ result'[p] = how
    BY DEF Ends, given, Typed, Types
<1>2. result[p] = None
    BY DEF Typed, Phase
<1>3. FromTree(p)' /\ Holds(p)' /\ Progress(p)'
    BY <1>1 DEF Batch, FromTree, Holds, Progress
<1>4. Handles(p)'
  <2>1. Taken(p)' - Busy(p)' <= Taken(p) - Busy(p)
    <3>1. Taken(p)' = Taken(p) /\ Taken(p) \in Int
        BY <1>1, ListOf DEF Taken
    <3>2. Busy(p) \in {0, 1} /\ Busy(p)' \in {0, 1} /\ Busy(p) <= Busy(p)'
        BY <1>1, <1>2, NoneAssumption DEF Busy
    <3> QED BY <3>1, <3>2
  <2>2. ASSUME NEW j \in 1 .. Taken(p)' - Busy(p)'
        PROVE  \/ Made(p, listed[p][j])
               \/ target[p] = Out(p, listed[p][j]) /\ pc[p] = "write"
    <3>1. /\ Taken(p)' \in Int /\ Busy(p)' \in Int
          /\ Taken(p) \in Int /\ Busy(p) \in Int
        BY <1>1, ListOf DEF Taken, Busy
    <3>2. j \in 1 .. Taken(p) - Busy(p)
        BY <2>1, <3>1
    <3> QED BY <3>2 DEF Batch, Handles
  <2>3. \A j : /\ Made(p, listed[p][j])' <=> Made(p, listed[p][j])
               /\ Out(p, listed[p][j])' = Out(p, listed[p][j])
      BY <1>1 DEF Made, Out
  <2> QED BY <1>1, <2>2, <2>3 DEF Handles
<1>5. Reasoned(p)'
    BY <1>1, <1>2 DEF Reasoned
<1> QED BY <1>3, <1>4, <1>5 DEF Batch

LEMMA FailBatch ==
    ASSUME Typed, NEW p \in Process, Working(p), Batch(p),
           ReadFails(p) \/ ExportFails(p) \/ CreateFails(p)
    PROVE  Batch(p)'
<1>1. /\ Ends(p, "failed") /\ pc[p] \in {"loop", "export", "create"}
      /\ UNCHANGED <<given, file, todo, doc, target, written, hurt, kills>>
    BY DEF ReadFails, ExportFails, CreateFails, Fails
<1>2. file' = file /\ cmd' = cmd
    BY <1>1 DEF given
<1>3. PICK path \in Range(listed[p]) :
          Faulty(path) \/ file[Out(p, path)] = Directory
  <2>1. CASE ReadFails(p)
    <3>1. todo[p] # <<>> /\ ~Parses(file[Head(todo[p])])
        BY <2>1 DEF ReadFails
    <3>2. Head(todo[p]) \in Range(listed[p])
        BY <3>1, ListOf, RestTail DEF Typed, Types
    <3> QED BY <3>1, <3>2 DEF Faulty
  <2>2. CASE ExportFails(p)
    <3>1. pc[p] = "export" /\ doc[p][2] \in Unbuildable
        BY <2>2 DEF ExportFails
    <3>2. Taken(p) \in 1 .. Len(listed[p]) /\ doc[p][2] = TxOf(file[Current(p)])
        BY <3>1 DEF Batch, Holds
    <3> QED BY <3>1, <3>2, ListOf DEF Faulty, Current
  <2>3. CASE CreateFails(p)
    <3>1. pc[p] = "create" /\ file[target[p]] = Directory
        BY <2>3 DEF CreateFails
    <3>2. Taken(p) \in 1 .. Len(listed[p]) /\ target[p] = Out(p, Current(p))
        BY <3>1 DEF Batch, Holds
    <3> QED BY <3>1, <3>2, ListOf DEF Current
  <2> QED BY <2>1, <2>2, <2>3
<1>4. path \in Path
    BY ListOf
<1>5. Reasoned(p)'
    BY <1>2, <1>3, <1>4 DEF Batch, FromTree, Reasoned, Faulty, Out
<1> QED BY <1>1, <1>5, EndBatch

LEMMA FinishBatch ==
    ASSUME Typed, NEW p \in Process, Working(p), Batch(p), Finish(p) \/ Kill(p)
    PROVE  Batch(p)'
<1>1. CASE Finish(p)
    BY <1>1, EndBatch DEF Finish
<1>2. CASE Kill(p)
    BY <1>2, EndBatch DEF Kill
<1> QED BY <1>1, <1>2

(* A vector stays while another file of the output directory is written. *)
LEMMA MadeStays ==
    ASSUME Typed, NEW p \in Process, Working(p), target[p] \in Path,
           target[p][1] = cmd[p].out,
           NEW w, file' = [file EXCEPT ![target[p]] = w],
           cmd' = cmd, listed' = listed,
           NEW path \in Range(listed[p])
    PROVE  /\ file'[path] = file[path]
           /\ Made(p, path) /\ Out(p, path) # target[p] => Made(p, path)'
<1>1. \A same \in Range(listed[p]) : same \in Path /\ same # target[p]
    BY ListOf DEF Working, Separate
<1>2. \A same \in Range(listed[p]) : file'[same] = file[same]
    BY <1>1 DEF Typed, Types
<1>3. ASSUME Made(p, path), Out(p, path) # target[p] PROVE Made(p, path)'
  <2>1. PICK same \in Range(listed[p]) :
            /\ same[2] = path[2] /\ Parses(file[same])
            /\ file[Out(p, path)] = Text(<<"vector", TxOf(file[same])>>)
      BY <1>3 DEF Made
  <2>2. Out(p, path) \in Path
    <3>1. path \in Path
        BY ListOf
    <3>2. cmd[p].out \in Dir
        BY DEF Path
    <3> QED BY <3>1, <3>2 DEF Out, Path
  <2>3. file'[Out(p, path)] = file[Out(p, path)] /\ Out(p, path)' = Out(p, path)
      BY <1>3, <2>2 DEF Typed, Types, Out
  <2> QED BY <1>2, <2>1, <2>3 DEF Made
<1> QED BY <1>2, <1>3

(* File::create takes a vector away only if the path is written next. *)
LEMMA CreateBatch ==
    ASSUME Typed, NEW p \in Process, Create(p), Working(p), Batch(p)
    PROVE  Batch(p)'
<1>1. /\ pc[p] = "create" /\ target[p] \in Path
      /\ file' = [file EXCEPT ![target[p]] = <<>>]
      /\ written' = [written EXCEPT ![p] = 0]
      /\ pc' = [pc EXCEPT ![p] = "write"]
      /\ cmd' = cmd /\ listed' = listed /\ todo' = todo /\ doc' = doc
      /\ target' = target /\ result' = result
    BY DEF Create, Open, given, Typed, Phase
<1>2. /\ result[p] = None /\ pc'[p] = "write" /\ written'[p] = 0 /\ file'[target[p]] = <<>>
    BY <1>1 DEF Typed, Types, Phase
<1>3. /\ Taken(p) \in 1 .. Len(listed[p]) /\ target[p] = Out(p, Current(p))
      /\ Parses(file[Current(p)])
      /\ doc[p] = <<"vector", TxOf(file[Current(p)])>>
    BY <1>1 DEF Batch, Holds
<1>4. target[p][1] = cmd[p].out
    BY <1>3 DEF Out
<1>5. \A path \in Range(listed[p]) :
          /\ file'[path] = file[path]
          /\ Made(p, path) /\ Out(p, path) # target[p] => Made(p, path)'
    BY <1>1, <1>4, MadeStays
<1>6. Current(p) \in Range(listed[p])
    BY <1>3, ListOf DEF Current
<1>7. FromTree(p)'
    BY <1>1, <1>5 DEF Batch, FromTree
<1>8. Holds(p)' /\ Progress(p)'
  <2>1. Taken(p)' = Taken(p) /\ Current(p)' = Current(p) /\ file'[Current(p)] = file[Current(p)]
      BY <1>1, <1>5, <1>6 DEF Taken, Current
  <2>2. Out(p, Current(p))' = Out(p, Current(p))
      BY <1>1, <2>1 DEF Out
  <2>3. Holds(p)'
      BY <1>1, <1>3, <2>1, <2>2 DEF Holds
  <2> QED BY <1>1, <1>2, <2>3 DEF Progress
<1>9. Handles(p)'
  <2>1. Taken(p)' - Busy(p)' = Taken(p) - Busy(p)
      BY <1>1, <1>2, NoneAssumption DEF Busy, Taken
  <2>2. ASSUME NEW j \in 1 .. Taken(p) - Busy(p)
        PROVE  Made(p, listed[p][j])' \/ target[p] = Out(p, listed[p][j])
    <3>1. j \in 1 .. Len(listed[p]) /\ listed[p][j] \in Range(listed[p])
        BY ListOf DEF Busy
    <3>2. Made(p, listed[p][j])
        BY <1>1 DEF Batch, Handles
    <3>3. listed'[p][j] = listed[p][j]
        BY <1>1
    <3> QED BY <1>5, <3>1, <3>2, <3>3
  <2>3. \A j : Out(p, listed[p][j])' = Out(p, listed[p][j])
      BY <1>1 DEF Out
  <2>4. listed' = listed /\ target' = target /\ pc'[p] = "write"
      BY <1>1, <1>2
  <2> QED BY <2>1, <2>2, <2>3, <2>4 DEF Handles
<1>10. Reasoned(p)'
    BY <1>1, <1>2, NoneAssumption DEF Reasoned
<1> QED BY <1>7, <1>8, <1>9, <1>10 DEF Batch

(* The last piece makes the vector, for every input of that name. *)
LEMMA WriteBatch ==
    ASSUME Typed, NEW p \in Process, Write(p), Working(p), Batch(p)
    PROVE  Batch(p)'
<1> DEFINE k == written[p] + 1
           c == file[target[p]]
           w == WriteAt(c, k, <<doc[p], k>>)
<1>1. /\ doc[p] \in Document /\ target[p] \in Path /\ pc[p] = "write"
      /\ k \in 1 .. Pieces /\ c \in Texts /\ w \in Texts
      /\ Len(w) = IF Len(c) >= k THEN Len(c) ELSE k
      /\ \A j \in 1 .. Len(w) :
            w[j] = IF j = k THEN <<doc[p], k>> ELSE IF j <= Len(c) THEN c[j] ELSE Hole
      /\ written' = [written EXCEPT ![p] = k]
      /\ file' = [file EXCEPT ![target[p]] = w]
      /\ pc' = [pc EXCEPT ![p] = IF k < Pieces THEN "write"
                                 ELSE IF cmd[p].op = "from_file" THEN "loop" ELSE "idle"]
      /\ result' = [result EXCEPT ![p] = IF k < Pieces \/ cmd[p].op = "from_file"
                                         THEN None ELSE "ok"]
    BY WriteMakes
<1>2. cmd' = cmd /\ listed' = listed /\ todo' = todo /\ doc' = doc /\ target' = target
    BY DEF Write, given
<1>3. /\ Taken(p) \in 1 .. Len(listed[p]) /\ target[p] = Out(p, Current(p))
      /\ Parses(file[Current(p)])
      /\ doc[p] = <<"vector", TxOf(file[Current(p)])>>
    BY <1>1 DEF Batch, Holds
<1>4. Len(c) = written[p] /\ \A j \in 1 .. written[p] : c[j] = <<doc[p], j>>
    BY <1>1 DEF Batch, Progress
<1>5. written[p] \in Nat /\ Pieces \in Nat
    BY CommandsAssumption DEF Typed, Types
<1>6. Len(w) = k /\ \A j \in 1 .. k : w[j] = <<doc[p], j>>
  <2>1. Len(w) = k
    <3> HIDE DEF w, c
    <3> QED BY <1>1, <1>4, <1>5
  <2>2. ASSUME NEW j \in 1 .. k PROVE w[j] = <<doc[p], j>>
    <3>1. w[j] = IF j = k THEN <<doc[p], k>> ELSE IF j <= Len(c) THEN c[j] ELSE Hole
        BY <1>1, <2>1
    <3> HIDE DEF w, c
    <3>2. j # k => j \in 1 .. written[p]
        BY <1>5
    <3> QED BY <1>4, <1>5, <3>1, <3>2
  <2> QED BY <2>1, <2>2
<1>7. target[p][1] = cmd[p].out
    BY <1>3 DEF Out
<1> HIDE DEF w, c, k
<1>8. \A path \in Range(listed[p]) :
          /\ file'[path] = file[path]
          /\ Made(p, path) /\ Out(p, path) # target[p] => Made(p, path)'
    BY <1>1, <1>2, <1>7, MadeStays
<1>9. Current(p) \in Range(listed[p])
    BY <1>3, ListOf DEF Current
<1>10. /\ cmd[p].op = "from_file" /\ result[p] = None
       /\ result'[p] = None /\ written'[p] = k /\ file'[target[p]] = w
       /\ pc'[p] = IF k < Pieces THEN "write" ELSE "loop"
    BY <1>1 DEF Working, Separate, Typed, Types, Phase
<1>11. FromTree(p)'
    BY <1>2, <1>8 DEF Batch, FromTree
<1>12. Holds(p)'
  <2>1. Taken(p)' = Taken(p) /\ Current(p)' = Current(p) /\ file'[Current(p)] = file[Current(p)]
      BY <1>2, <1>8, <1>9 DEF Taken, Current
  <2>2. Out(p, Current(p))' = Out(p, Current(p))
      BY <1>2, <2>1 DEF Out
  <2> QED BY <1>2, <1>3, <2>1, <2>2 DEF Holds
<1>13. Progress(p)'
    BY <1>2, <1>6, <1>10 DEF Progress
<1>14. Handles(p)'
  <2>1. \A j : Out(p, listed[p][j])' = Out(p, listed[p][j])
      BY <1>2 DEF Out
  <2>2. ASSUME k = Pieces, NEW j \in 1 .. Len(listed[p]), target[p] = Out(p, listed[p][j])
        PROVE  Made(p, listed[p][j])'
    <3>1. w = Text(doc[p])
      <4>1. w = [i \in 1 .. Pieces |-> w[i]]
          BY <1>1, <1>6, <2>2, TextsAre
      <4> QED BY <1>6, <2>2, <4>1 DEF Text
    <3>2. /\ file'[Out(p, listed[p][j])] = Text(<<"vector", TxOf(file'[Current(p)])>>)
          /\ Parses(file'[Current(p)])
        BY <1>3, <1>8, <1>9, <1>10, <2>2, <3>1
    <3>3. Current(p)[2] = listed[p][j][2]
        BY <1>3, <2>2 DEF Out
    <3> QED BY <1>2, <1>9, <2>1, <3>2, <3>3 DEF Made
  <2>3. ASSUME NEW j \in 1 .. Len(listed[p]), Made(p, listed[p][j]), target[p] # Out(p, listed[p][j])
        PROVE  Made(p, listed[p][j])'
    <3>1. listed[p][j] \in Range(listed[p]) /\ listed'[p][j] = listed[p][j]
        BY <1>2, ListOf
    <3> QED BY <1>8, <2>3, <3>1
  <2>4. \A j \in 1 .. Taken(p) - 1 :
            Made(p, listed[p][j]) \/ target[p] = Out(p, listed[p][j])
      BY <1>1, <1>10, NoneAssumption DEF Batch, Handles, Busy
  <2>5. CASE k < Pieces
    <3>1. Taken(p)' - Busy(p)' = Taken(p) - 1
        BY <1>2, <1>10, <2>5, NoneAssumption DEF Taken, Busy
    <3>2. \A j \in 1 .. Taken(p) - 1 : j \in 1 .. Len(listed[p])
        BY ListOf
    <3>3. \A j \in 1 .. Taken(p) - 1 : Made(p, listed[p][j])' \/ target[p] = Out(p, listed[p][j])
        BY <2>3, <2>4, <3>2
    <3>4. listed' = listed /\ target' = target /\ pc'[p] = "write"
        BY <1>2, <1>10, <2>5
    <3> QED BY <2>1, <3>1, <3>3, <3>4 DEF Handles
  <2>6. CASE ~(k < Pieces)
    <3>0. k = Pieces /\ pc'[p] = "loop"
        BY <1>1, <1>5, <1>10, <2>6
    <3>1. Taken(p)' - Busy(p)' = Taken(p)
      <4>1. Taken(p)' = Taken(p) /\ Taken(p) \in Int
          BY <1>2, ListOf DEF Taken
      <4>2. Busy(p)' = 0
          BY <3>0 DEF Busy
      <4> QED BY <4>1, <4>2
    <3>2. ASSUME NEW j \in 1 .. Taken(p)
          PROVE  /\ j \in 1 .. Len(listed[p])
                 /\ Made(p, listed[p][j]) \/ target[p] = Out(p, listed[p][j])
      <4>1. CASE j = Taken(p)
          BY <1>3, <4>1 DEF Current
      <4>2. CASE j # Taken(p)
        <5>1. j \in 1 .. Taken(p) - 1 /\ j \in 1 .. Len(listed[p])
            BY <1>3, <4>2, ListOf
        <5> QED BY <2>4, <5>1
      <4> QED BY <4>1, <4>2
    <3> QED BY <2>2, <2>3, <3>0, <3>1, <3>2 DEF Handles
  <2> QED BY <2>5, <2>6
<1>15. Reasoned(p)'
    BY <1>10, NoneAssumption DEF Reasoned
<1> QED BY <1>11, <1>12, <1>13, <1>14, <1>15 DEF Batch

(* The others are idle while a run is alone: whoever starts ends that. *)
LEMMA NextBatch == Typed /\ BatchInv /\ [Next]_vars => BatchInv'
<1> SUFFICES ASSUME Typed, BatchInv, [Next]_vars, NEW p \in Process
             PROVE  Loner(p)' /\ (Working(p)' => Batch(p)')
    BY DEF BatchInv
<1>0. Loner(p) /\ (Working(p) => Batch(p))
    BY DEF BatchInv
<1>1. CASE UNCHANGED vars
    BY <1>0, <1>1 DEF vars, Loner, Working, Separate, Batch, FromTree, Holds, Progress, Handles,
       Reasoned, Made, Out, Taken, Current, Busy, Faulty
<1>2. ASSUME NEW q \in Process, NEW c \in Command, Start(q, c)
      PROVE  Loner(p)' /\ (Working(p)' => Batch(p)')
  <2>1. /\ alone' = [r \in Process |-> r = q /\ \A x \in Process : pc[x] = "idle"]
        /\ \A r \in Process \ {q} : pc'[r] = pc[r]
      BY <1>2 DEF Start, Ends, Typed, Types
  <2>2. CASE p = q
      BY <1>2, <2>1, <2>2, StartBatch DEF Loner
  <2>3. CASE p # q
      BY <2>1, <2>3 DEF Loner, Working
  <2> QED BY <2>2, <2>3
<1>3. ASSUME NEW q \in Process,
             \/ Fetch(q) \/ Read(q) \/ Export(q) \/ Create(q) \/ Write(q) \/ Kill(q)
             \/ FetchFails(q) \/ ReadFails(q) \/ ExportFails(q) \/ CreateFails(q) \/ Finish(q)
      PROVE  Loner(p)' /\ (Working(p)' => Batch(p)')
  <2>1. /\ pc[q] # "idle" /\ alone' = alone /\ cmd' = cmd /\ listed' = listed
        /\ \A r \in Process \ {q} : pc'[r] = pc[r]
    <3>1. CASE Fetch(q) \/ Read(q) \/ Export(q) \/ Create(q)
        BY <3>1 DEF Fetch, Read, Take, Export, Create, Open, given, Typed, Types
    <3>2. CASE Write(q)
      <4>1. \A r \in Process \ {q} : pc'[r] = pc[r]
        <5>1. pc' = [pc EXCEPT ![q] = IF written[q] + 1 < Pieces THEN "write"
                                      ELSE IF cmd[q].op = "from_file" THEN "loop" ELSE "idle"]
            BY <3>2, WriteMakes
        <5> QED BY <5>1 DEF Typed, Types
      <4> QED BY <3>2, <4>1 DEF Write, given
    <3>3. CASE Kill(q)
        BY <3>3 DEF Kill, Ends, given, Typed, Types
    <3>4. CASE FetchFails(q) \/ ReadFails(q) \/ ExportFails(q) \/ CreateFails(q) \/ Finish(q)
        BY <3>4, Closing DEF Closes, Ends, given, Typed, Types
    <3> QED BY <1>3, <3>1, <3>2, <3>3, <3>4
  <2>2. Working(p)' => Working(p)
      BY <2>1 DEF Working, Separate
  <2>3. alone[p] => p = q
      BY <1>0, <2>1 DEF Loner
  <2>4. Loner(p)'
      BY <1>0, <2>1, <2>3 DEF Loner
  <2>5. ASSUME Working(p) PROVE Batch(p)'
    <3>1. p = q /\ Batch(p) /\ cmd[p].op = "from_file"
        BY <1>0, <2>3, <2>5 DEF Working, Separate
    <3>2. ~Fetch(p) /\ ~FetchFails(p)
        BY <3>1 DEF Fetch, FetchFails, Typed, Phase
    <3> QED BY <1>3, <2>5, <3>1, <3>2, ReadBatch, ExportBatch, CreateBatch, WriteBatch,
            FailBatch, FinishBatch
  <2> QED BY <2>2, <2>4, <2>5
<1> QED BY <1>1, <1>2, <1>3 DEF Next, Step

LEMMA BeginBatch == Init => BatchInv
BY DEF Init, BatchInv, Loner, Working

(* What is known of a batch that runs alone *)
THEOREM BatchInvariance == Spec => []BatchInv
<1>1. Inv => Typed
    BY DEF Inv
<1> QED BY <1>1, Invariance, BeginBatch, NextBatch, PTL DEF Spec

(* HandledAreWritten: the loop of generate-from-file has a vector for every
   path it is through with. *)
THEOREM HandledHaveVectors == Spec => []HandledAreWritten
<1>1. Typed /\ BatchInv => HandledAreWritten
  <2> SUFFICES ASSUME Typed, BatchInv, NEW p \in Process, alone[p], Separate(p),
                      NEW path \in Handled(p)
               PROVE  \/ Made(p, path)
                      \/ target[p] = Out(p, path) /\ (pc[p] = "write" \/ Out(p, path) \in hurt)
      BY DEF HandledAreWritten, Made, Out
  <2>1. PICK j \in 1 .. Taken(p) - Busy(p) : path = listed[p][j]
      BY DEF Handled, Taken, Busy
  <2> QED BY <2>1 DEF BatchInv, Working, Batch, Handles
<1>2. Inv => Typed
    BY DEF Inv
<1> QED BY <1>1, <1>2, Invariance, BatchInvariance, PTL

(* FailuresHaveReasons: a batch fails because of an input or of a directory
   in the place of a vector. *)
THEOREM NoFailureWithoutReason == Spec => []FailuresHaveReasons
<1>1. BatchInv => FailuresHaveReasons
    BY DEF BatchInv, Working, Batch, Reasoned, Out, FailuresHaveReasons
<1> QED BY <1>1, BatchInvariance, PTL

===============================================================================
