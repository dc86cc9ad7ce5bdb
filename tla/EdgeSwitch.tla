---------------------------- MODULE EdgeSwitch ----------------------------
(***************************************************************************)
(* The edge switches: flow table, relay unit and switch agent              *)
(* (Edge_OF_RelayUnit.cc, Edge_OF_SwitchAgent.cc, OF_RelayUnit.cc).  Each  *)
(* operation is an action on the switch's own state; what it sends is      *)
(* composed in PathReconfig.                                               *)
(***************************************************************************)
EXTENDS OF_FlowTable, ConfigurationEngine

VARIABLES
    entries,                     \* flow table of each switch
    SeenStreams,                 \* streams whose talker advertised here
    StreamActiveMatchVersionMap  \* version the frames of a stream get here

switchVars == << entries, SeenStreams, StreamActiveMatchVersionMap >>

InPorts  == Switches \cup {"talker"}
OutPorts == Switches \cup {"listener"}

Entry == [flow : {FlowOf[s] : s \in Streams}, inport : InPorts, outport : OutPorts,
          tag : Versions]

SwitchInit ==
    /\ entries = [sw \in Switches |-> << >>]
    /\ SeenStreams = [sw \in Switches |-> {}]
    /\ StreamActiveMatchVersionMap = [sw \in Switches |-> [s \in Streams |-> 0]]

(* The relay receives the TalkerAdvertise of stream s from its talker.     *)
RelayTalkerAdvertise(sw, s) ==
    /\ SeenStreams' = [SeenStreams EXCEPT ![sw] = @ \cup {s}]
    /\ UNCHANGED << entries, StreamActiveMatchVersionMap >>

(* The agent executes a FlowMod; FLOW_MOD is handled only when tagging is  *)
(* enabled.                                                                *)
handleFlowMod(sw, entry) ==
    /\ \E table \in IF isTaggingEnabled THEN addEntry(entries[sw], entry)
                    ELSE {entries[sw]} :
           entries' = [entries EXCEPT ![sw] = table]
    /\ UNCHANGED << SeenStreams, StreamActiveMatchVersionMap >>

(* The relay executes an ActivationMessage (an id of no stream leaves the  *)
(* entries of the streams alone).                                          *)
handleMatchVersionMessage(sw, s, version) ==
    /\ StreamActiveMatchVersionMap' =
           [StreamActiveMatchVersionMap EXCEPT
                ![sw] = [t \in Streams |-> IF t = s THEN version ELSE @[t]]]
    /\ UNCHANGED << entries, SeenStreams >>

(* The version a data frame of stream s carries when sw looks it up.       *)
TagAt(sw, s, tag) ==
    IF isTaggingEnabled /\ s \in SeenStreams[sw]
    THEN StreamActiveMatchVersionMap[sw][s] ELSE tag

(* Entry number pos of the table of sw times out.                          *)
AgeEntry(sw, pos) ==
    /\ entries' = [entries EXCEPT ![sw] = removeAgedEntry(@, pos)]
    /\ UNCHANGED << SeenStreams, StreamActiveMatchVersionMap >>

(* A rule of version for the flow of s is in the table of sw.              *)
Installed(sw, s, version) ==
    \E i \in DOMAIN entries[sw] :
        entries[sw][i].flow = FlowOf[s] /\ entries[sw][i].tag = version
=============================================================================
