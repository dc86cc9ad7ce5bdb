--------------------------- MODULE OF_FlowTable ---------------------------
(***************************************************************************)
(* The flow table of an OpenFlow switch (OF_FlowTable.cc,                  *)
(* OF100_FlowTableEntry.cc): the table is the vector _entries, a lookup    *)
(* returns its first entry that matches.                                   *)
(*                                                                         *)
(* An entry is [flow, inport, outport, tag]: flow stands for the source    *)
(* and destination addresses and the VLAN id (compared together), inport   *)
(* and outport for the neighbour behind the port, tag for OFB_TAG, the     *)
(* version number the ConfigurationEngine writes into the match.           *)
(***************************************************************************)
EXTENDS Integers, Sequences

CONSTANT MaxFlowEntries     \* maxFlowEntries of the module; 0 = no limit

ASSUME MaxFlowEntriesAssumption == MaxFlowEntries \in Nat

(* tryMatch compares the port, the addresses and the VLAN id.  It has no   *)
(* comparison of OFB_TAG.                                                  *)
tryMatch(entry, flow, inport) == entry.flow = flow /\ entry.inport = inport

Matching(entries, flow, inport) ==
    {i \in DOMAIN entries : tryMatch(entries[i], flow, inport)}

(* The index of the entry lookup returns, 0 for nullptr.                   *)
lookup(entries, flow, inport) ==
    LET hits == Matching(entries, flow, inport) IN
    IF hits = {} THEN 0
    ELSE CHOOSE i \in hits : \A j \in hits : i <= j

(* sortEntries sorts the vector of POINTERS: where the new entry ends up   *)
(* depends on the address the allocator returned, so it is any position;   *)
(* the entries already there keep their order.                             *)
InsertedAt(entries, pos, entry) ==
    [i \in 1 .. Len(entries) + 1 |-> IF i < pos THEN entries[i]
                                     ELSE IF i = pos THEN entry
                                     ELSE entries[i - 1]]

Full(entries) == MaxFlowEntries # 0 /\ Len(entries) >= MaxFlowEntries

(* The tables addEntry may leave: a full table is left as it is (the       *)
(* `false' it returns is dropped by handleFlowMod); the duplicate test     *)
(* compares pointers and never holds for a freshly allocated entry.        *)
addEntry(entries, entry) ==
    IF Full(entries) THEN {entries}
    ELSE {InsertedAt(entries, pos, entry) : pos \in 1 .. Len(entries) + 1}

(* One entry reaches its idle or hard timeout and is erased.               *)
removeAgedEntry(entries, pos) ==
    [i \in 1 .. Len(entries) - 1 |-> IF i < pos THEN entries[i]
                                     ELSE entries[i + 1]]
=============================================================================
