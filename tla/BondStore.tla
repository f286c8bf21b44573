----------------------------- MODULE BondStore ------------------------------
(***************************************************************************)
(* What m_peer_table promises the SoftDevice, which keeps the address of   *)
(* an entry while it pairs (peer_manager.c): the entry is lent.  At most   *)
(* one entry is lent at a time.  Until the stack is through with it the    *)
(* application changes no entry at all, and only the stack writes a key,   *)
(* into the entry that it was lent.  The one exception is start-up, which  *)
(* clears the table bit by bit whoever uses it.                            *)
(***************************************************************************)
CONSTANTS
    Idx,            \* the entries of the table
    NoEntry         \* no index

VARIABLES
    up,             \* has the table been initialised?
    entry,          \* what the application keeps in each entry
    key,            \* the key the stack has put there
    lent            \* the entry that the stack holds, or NoEntry

vars == <<up, entry, key, lent>>

Init == up = FALSE /\ lent = NoEntry

\* No other element of f changes.
ChangesAt(f, g, i) == g = [f EXCEPT ![i] = g[i]]

Clear ==
    /\ ~ up /\ up' \in BOOLEAN
    /\ UNCHANGED <<key, lent>>

\* The application writes an entry: a central gets it, it is completed after
\* the pairing, or it is released.
Write(i) ==
    /\ lent = NoEntry
    /\ ChangesAt(entry, entry', i)
    /\ UNCHANGED <<up, key, lent>>

\* The entry may be written in the same step.
Lend(i) ==
    /\ lent = NoEntry /\ lent' = i
    /\ ChangesAt(entry, entry', i)
    /\ UNCHANGED <<up, key>>

\* The pairing makes a bond: its key, and perhaps an identity address.
Store ==
    /\ lent # NoEntry /\ lent' = NoEntry
    /\ ChangesAt(entry, entry', lent) /\ ChangesAt(key, key', lent)
    /\ UNCHANGED up

\* It does not.
Return ==
    /\ lent # NoEntry /\ lent' = NoEntry
    /\ UNCHANGED <<up, entry, key>>

Next == Clear \/ (\E i \in Idx : Write(i) \/ Lend(i)) \/ Store \/ Return

Spec == Init /\ [][Next]_vars
=============================================================================
