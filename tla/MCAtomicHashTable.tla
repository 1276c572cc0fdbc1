-------------------------- MODULE MCAtomicHashTable --------------------------
(***************************************************************************)
(* Instances of AtomicHashTable for TLC.                                   *)
(***************************************************************************)
EXTENDS AtomicHashTable, TLC

CONSTANTS k1, k2, k3, short, long

Calls(names, keys, values) ==
    [op : names, key : keys, value : values]

\* Calls that carry no value or no key are given one that is not looked at.  The
\* two keys have the same hash, so calls on k1 stand for calls on either.
MCOps == Calls({"insert"}, {k1, k2}, {short, long})
            \cup Calls({"update"}, {k1}, {short, long})
            \cup Calls({"remove"}, {k1, k2}, {short})
            \cup Calls({"get", "attach"}, {k1}, {short})

MCSize == (short :> 1) @@ (long :> 2)
MCHash == (k1 :> 6) @@ (k2 :> 6)
MCCols == <<3, 2>>

\* For attaching: three keys, one row.
MCAttachOps == Calls({"insert", "remove"}, {k1, k2, k3}, {short})
                  \cup Calls({"attach"}, {k1}, {short})
MCAttachHash == (k1 :> 0) @@ (k2 :> 1) @@ (k3 :> 2)
MCOneRow == <<2>>
=============================================================================
