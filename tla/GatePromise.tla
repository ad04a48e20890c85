----------------------------- MODULE GatePromise -----------------------------
(***************************************************************************)
(* What the review gate promises, apart from how it is implemented: what   *)
(* leaves the tool is exactly what a named human signed, and anything put  *)
(* on the record after a signature takes the signature away.               *)
(*                                                                         *)
(* The record of one comparison is what humans said about it: the flags    *)
(* that stand dismissed, the bands that stand overridden, and the          *)
(* candidates' responses heard so far (by id).                             *)
(***************************************************************************)
CONSTANTS
    Candidates,   \* the candidates of the comparison
    Flags,        \* flag ids
    Bands,        \* the bands a human may record instead of the machine's
    ResponseIds,  \* the ids the candidates' responses take
    None          \* no view has been signed, or shipped

VARIABLES
    dismissed,    \* the <<candidate, flag>> pairs that stand dismissed
    overrides,    \* the <<candidate, band>> pairs in force
    heard,        \* the ids of the responses heard
    signed,       \* the view a human signed, None once anything was added to it
    shipped       \* the view that left in the last export

vars == <<dismissed, overrides, heard, signed, shipped>>

View == [dismissed |-> dismissed, overrides |-> overrides, heard |-> heard]

Init ==
    /\ dismissed = {}
    /\ overrides = {}
    /\ heard = {}
    /\ signed = None
    /\ shipped = None

Dismiss(c, f) ==
    /\ dismissed' = dismissed \cup {<<c, f>>}
    /\ signed' = None
    /\ UNCHANGED <<overrides, heard, shipped>>

Confirm(c, f) ==
    /\ dismissed' = dismissed \ {<<c, f>>}
    /\ signed' = None
    /\ UNCHANGED <<overrides, heard, shipped>>

Override(c, b) ==
    /\ overrides' = {o \in overrides : o[1] # c} \cup {<<c, b>>}
    /\ signed' = None
    /\ UNCHANGED <<dismissed, heard, shipped>>

Hear(id) ==
    /\ id \notin heard
    /\ heard' = heard \cup {id}
    /\ signed' = None
    /\ UNCHANGED <<dismissed, overrides, shipped>>

Sign ==
    /\ signed' = View
    /\ UNCHANGED <<dismissed, overrides, heard, shipped>>

Ship ==
    /\ signed = View
    /\ shipped' = View
    /\ UNCHANGED <<dismissed, overrides, heard, signed>>

Next ==
    \/ \E c \in Candidates, f \in Flags : Dismiss(c, f) \/ Confirm(c, f)
    \/ \E c \in Candidates, b \in Bands : Override(c, b)
    \/ \E id \in ResponseIds : Hear(id)
    \/ Sign
    \/ Ship

Spec == Init /\ [][Next]_vars

=============================================================================
