------------------------------ MODULE Recovery ------------------------------
(***************************************************************************)
(* What the recovery of an AC5X switch promises about the platform XML.    *)
(*                                                                         *)
(* A system comes up with the XML that is stored, or with the factory XML  *)
(* where that cannot be had, never with anything else.  The stored XML is  *)
(* the operator's: the recovery replaces it with the factory XML, and does *)
(* that only while no system runs with an XML that works.  A loss of power *)
(* undoes or tears a write that is still pending, and nothing else.        *)
(***************************************************************************)
CONSTANTS
    Factory,   \* the XML in the image
    Custom,    \* the XMLs an operator may store
    Torn,      \* what an interrupted write leaves
    Absent,    \* no XML is stored
    NoAgent,   \* no system is up
    Works      \* the XMLs with which the ports come up

VARIABLES
    xml,       \* the stored XML
    safe,      \* the one that would survive a loss of power
    pending,   \* a write is under way from xml to safe
    using      \* the XML the system is up with

vars == <<xml, safe, pending, using>>

Init ==
    /\ xml \in Custom \cup {Factory, Absent} /\ safe = xml
    /\ pending = FALSE /\ using = NoAgent

Start ==
    /\ using = NoAgent /\ using' \in {xml, Factory}
    /\ UNCHANGED <<xml, safe, pending>>

Stop ==
    /\ using # NoAgent /\ using' = NoAgent
    /\ UNCHANGED <<xml, safe, pending>>

Edit ==
    /\ using # NoAgent
    /\ xml' \in Custom \cup {Factory, Absent} /\ pending' = TRUE
    /\ UNCHANGED <<safe, using>>

Heal ==
    /\ using \notin Works
    /\ xml' = Factory /\ pending' = TRUE
    /\ UNCHANGED <<safe, using>>

Flush ==
    /\ safe' = xml /\ pending' = FALSE
    /\ UNCHANGED <<xml, using>>

Cut ==
    /\ xml' \in {safe} \cup (IF pending THEN {Torn} ELSE {})
    /\ safe' = xml' /\ pending' = FALSE /\ using' = NoAgent

Next == Start \/ Stop \/ Edit \/ Heal \/ Flush \/ Cut

Spec == Init /\ [][Next]_vars
=============================================================================
