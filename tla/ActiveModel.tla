------------------------------ MODULE ActiveModel ------------------------------
(***************************************************************************)
(* What the motherbrain's model library promises whoever loads the active  *)
(* model: it changes in one step, and only to a model that was chosen when *)
(* its copy in the library was whole and the operator had approved it.  A  *)
(* choice may come to nothing, and copies go bad at any time, also between *)
(* the choice and the change.                                              *)
(***************************************************************************)
CONSTANTS Models, NoModel

VARIABLES active,   \* the model a reader of the library gets
          chosen,   \* the model that is about to be made active
          whole,    \* those whose copy in the library is whole
          allowed   \* those an operator has ever approved

ModelInit == active = NoModel /\ chosen = NoModel /\ whole = {} /\ allowed = {}

Install(c) == /\ whole' = whole \cup {c}
              /\ UNCHANGED <<active, chosen, allowed>>
Lose(c) == /\ whole' = whole \ {c}
           /\ UNCHANGED <<active, chosen, allowed>>

Approve(c) == /\ allowed' = allowed \cup {c}
              /\ UNCHANGED <<active, chosen, whole>>

\* The operator's approval may come with the choice.
Choose(c) == /\ allowed' \in {allowed, allowed \cup {c}}
             /\ c \in whole \cap allowed'
             /\ chosen' = c
             /\ UNCHANGED <<active, whole>>
Select == /\ chosen # NoModel
          /\ active' = chosen /\ chosen' = NoModel
          /\ UNCHANGED <<whole, allowed>>
Abandon == /\ chosen' = NoModel
           /\ UNCHANGED <<active, whole, allowed>>

ModelNext == \/ \E c \in Models : Install(c) \/ Lose(c) \/ Approve(c) \/ Choose(c)
             \/ Select \/ Abandon

ModelSpec == ModelInit /\ [][ModelNext]_<<active, chosen, whole, allowed>>
================================================================================
