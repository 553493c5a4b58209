---------------------------- MODULE MCPrintQueue ----------------------------
(* Instances of PrintQueue for TLC: two rows, one or two printers.          *)
EXTENDS PrintQueue, TLC

CONSTANTS i1, i2, i3, p1, p2, lib

\* Fixed
OnePrinter == [i \in Items |-> p1]
OwnPrinter == (i1 :> p1) @@ (i2 :> p2)
AnyPrinter == [i \in Items |-> NoPrinter]
FixedAndAny == (i1 :> p1) @@ (i2 :> NoPrinter)

\* Source
FromArchive == [i \in Items |-> NoFile]
FromLibrary == [i \in Items |-> lib]

\* rows that are created alike
RowSymmetry == Permutations(Items)
=============================================================================
