----------------------------- MODULE MCCommands -----------------------------
(***************************************************************************)
(* Transactions are extracted into a directory and generated from there,   *)
(* where a subdirectory has a file of the same name, and a file of another *)
(* kind and a directory that is named like a file lie about.               *)
(***************************************************************************)
EXTENDS Commands

CONSTANTS p1, p2, t1, t2, t3, in, sub, outdir, n1, n2, txt

Directories == {in, sub, outdir}
TreeOf == (in :> {in, sub}) @@ (sub :> {sub}) @@ (outdir :> {outdir})
Names  == {n1, n2, txt}
Jsons  == {n1, n2}
HashOf == n1 :> t1

FromFile(input, o) == [op |-> "from_file", input |-> input, out |-> o]
Given ==
    {[op |-> "extract", name |-> n1, out |-> in],
     [op |-> "generate", name |-> n1, out |-> outdir],
     FromFile(in, outdir), FromFile(<<sub, n1>>, outdir), FromFile(in, sub),
     FromFile(in, None)}

Files(f) == f @@ [path \in Path |-> None]

(***************************************************************************)
(* A good file beside one of another kind; two of one name, one of which   *)
(* cannot be exported, and a vector left torn; an outdated one;            *)
(* directories; two good files, and an earlier vector; two good files of   *)
(* one name.                                                               *)
(***************************************************************************)
Start0 == {
    Files((<<in, n2>> :> Text(<<"detail", t3>>)) @@ (<<in, txt>> :> Text(<<"outdated", t1>>))),
    Files((<<in, n1>> :> Text(<<"detail", t1>>)) @@ (<<sub, n1>> :> Text(<<"detail", t2>>))
            @@ (<<outdir, n1>> :> <<<<<<"vector", t2>>, 1>>>>)),
    Files((<<in, n1>> :> Text(<<"outdated", t1>>)) @@ (<<in, n2>> :> Text(<<"detail", t3>>))),
    Files((<<in, n2>> :> Text(<<"detail", t3>>)) @@ (<<outdir, n2>> :> Directory)
            @@ (<<sub, n1>> :> Directory)),
    Files((<<in, n1>> :> Text(<<"detail", t1>>)) @@ (<<in, n2>> :> Text(<<"detail", t3>>))
            @@ (<<outdir, n1>> :> Text(<<"vector", t1>>))),
    Files((<<in, n1>> :> Text(<<"detail", t1>>)) @@ (<<sub, n1>> :> Text(<<"detail", t3>>)))}
=============================================================================
