--------------------------- MODULE MCProposalGates ---------------------------
(***************************************************************************)
(* Values and bounds for model checking ProposalGates.                     *)
(***************************************************************************)
EXTENDS ProposalGates, FiniteSets, TLC

(* Calls of one kind are interchangeable.                                  *)
Symmetry == Permutations(Sessions) \cup Permutations(Approvals)
              \cup Permutations(Reviews) \cup Permutations(Editors)

(* A bound on the rows of a proposal, authorizations and decisions         *)
(* together: either kind may have MaxRows of them, not both.               *)
MaxTotal == 3
FewRows ==
    \A p \in Proposals :
        Cardinality({i \in Places : auths[p][i] # None})
          + Cardinality({i \in Places : decisions[p][i] # None}) <= MaxTotal

(* Two calls at once, of any kinds, each as long as others come and go;    *)
(* one, once an update or an approval wrote over another.                  *)
InProgress(calls) == {c \in DOMAIN calls : calls[c] # None}
FewCalls ==
    Cardinality(InProgress(edit)) + Cardinality(InProgress(session))
      + Cardinality(InProgress(approval)) + Cardinality(InProgress(review))
        <= IF raced = {} /\ overwritten = {} THEN 2 ELSE 1

(* Nothing is read before there is a proposal, so that what comes before   *)
(* one may come after it; and the product is edited or time passes.        *)
FewMoves ==
    /\ now + product.version <= 2
    /\ (\A p \in Proposals : proposal[p] = None) =>
         now = 0 /\ product.version = 1 /\ InProgress(edit) = {}
==============================================================================
