--------------------------- MODULE MerchantPolicy ----------------------------
(***************************************************************************)
(* The policy rows of one merchant, and ApplicationMerchantPolicyService.  *)
(* update_policy.  Where it reads no row it inserts one of version 1;      *)
(* otherwise it builds the new policy from what it read, loads the row a   *)
(* second time to change it, and writes the columns that differ from that  *)
(* second reading.  Neither reading locks the row and the write does not   *)
(* look at its version.  An expected version, when one is sent, is         *)
(* compared with the first reading only, so that an update it lets through *)
(* is one that any caller could send.  No two rows of a merchant have one  *)
(* version, but two rows may be there; an update then works on either,     *)
(* while the gates go by the greater version.                              *)
(***************************************************************************)
EXTENDS Naturals

CONSTANTS
  Editors,           \* policy updates served at once
  PolicyIds,         \* rows of the merchant, a bound on insertions
  Limits,            \* money limits a merchant may set
  MaxPolicyVersion,  \* bound: no update starts at this version
  None

Modes == {"MANUAL_ALL", "AUTO_BELOW_LIMIT", "DENY_ALL"}

Terms == [mode : Modes, limit : Limits \cup {None}]

(* A limit belongs to AUTO_BELOW_LIMIT and to no other mode; constructing  *)
(* any other policy, from a command or from a row, raises.                 *)
WellFormed(x) == x.mode = "AUTO_BELOW_LIMIT" <=> x.limit # None

VARIABLES
  policy,  \* merchant_policies: of each row None, or [version, mode, limit]
  edit,    \* None, or what an update in progress has read and wants
  raced    \* history: rows written over a change that the update had not seen

policyVars == <<policy, edit, raced>>

Policy == [version : 1..MaxPolicyVersion, mode : Modes, limit : Limits \cup {None}]

InsertEdit == [step : {"insert"}, terms : Terms]
ReadEdit   == [step : {"read"}, id : PolicyIds, base : 1..MaxPolicyVersion - 1, terms : Terms]
LoadedEdit == [step : {"loaded"}, id : PolicyIds, base : 1..MaxPolicyVersion - 1,
               terms : Terms, row : Policy]

ASSUME PolicyAssumption ==
    /\ Limits \subseteq Nat
    /\ MaxPolicyVersion \in Nat \ {0}
    /\ None \notin Limits \cup Policy \cup InsertEdit \cup ReadEdit \cup LoadedEdit

PolicyTypeOK ==
    /\ policy \in [PolicyIds -> Policy \cup {None}]
    /\ edit \in [Editors -> InsertEdit \cup ReadEdit \cup LoadedEdit \cup {None}]
    /\ raced \subseteq PolicyIds

PolicyInit ==
    /\ policy = [i \in PolicyIds |-> None]
    /\ edit = [e \in Editors |-> None]
    /\ raced = {}

Stored == {i \in PolicyIds : policy[i] # None}

(* get_active_policy of the gates: at most one row, by version.            *)
InForce == {i \in Stored : \A j \in Stored : policy[j].version <= policy[i].version}

Free(version) == \A i \in Stored : policy[i].version # version

ReadPolicy(e, terms) ==
    /\ edit[e] = None
    /\ WellFormed(terms)
    /\ \/ /\ Stored = {}
          /\ edit' = [edit EXCEPT ![e] = [step |-> "insert", terms |-> terms]]
       \/ \E i \in Stored :
            /\ WellFormed(policy[i])
            /\ policy[i].version < MaxPolicyVersion
            /\ edit' = [edit EXCEPT ![e] = [step |-> "read", id |-> i, terms |-> terms,
                                           base |-> policy[i].version]]
    /\ UNCHANGED <<policy, raced>>

(* Refused when another caller inserted version 1 meanwhile.               *)
InsertRow(e) ==
    /\ edit[e] # None
    /\ edit[e].step = "insert"
    /\ IF Free(1)
         THEN \E i \in PolicyIds \ Stored :
                policy' = [policy EXCEPT ![i] = [version |-> 1, mode |-> edit[e].terms.mode,
                                                 limit |-> edit[e].terms.limit]]
         ELSE UNCHANGED policy
    /\ edit' = [edit EXCEPT ![e] = None]
    /\ UNCHANGED raced

LoadRow(e) ==
    /\ edit[e] # None
    /\ edit[e].step = "read"
    /\ LET i == edit[e].id IN
         edit' = [edit EXCEPT ![e] = [step |-> "loaded", id |-> i, base |-> @.base,
                                      terms |-> @.terms, row |-> policy[i]]]
    /\ UNCHANGED <<policy, raced>>

(* Variants that do not count the change, or count it twice.               *)
SameVersion(base) == base
TwoVersions(base) == base + 2

NextVersion(base) == base + 1

(* A column is written when the new value is not the loaded one.           *)
Written(new, loaded, stored) == IF new # loaded THEN new ELSE stored

(* The row changed between the two readings, or since the second.          *)
Unseen(e) ==
    \/ edit[e].row.version # edit[e].base
    \/ policy[edit[e].id] # edit[e].row

(* Refused when another row has the version.                               *)
WriteRow(e) ==
    /\ edit[e] # None
    /\ edit[e].step = "loaded"
    /\ LET i == edit[e].id
           row == edit[e].row
           terms == edit[e].terms
           new == [version |-> Written(NextVersion(edit[e].base), row.version, policy[i].version),
                   mode    |-> Written(terms.mode, row.mode, policy[i].mode),
                   limit   |-> Written(terms.limit, row.limit, policy[i].limit)]
       IN IF \A j \in Stored \ {i} : policy[j].version # new.version
            THEN /\ policy' = [policy EXCEPT ![i] = new]
                 /\ raced' = IF Unseen(e) THEN raced \cup {i} ELSE raced
            ELSE UNCHANGED <<policy, raced>>
    /\ edit' = [edit EXCEPT ![e] = None]

PolicyStep(e) ==
    \/ \E terms \in Terms : ReadPolicy(e, terms)
    \/ InsertRow(e)
    \/ LoadRow(e)
    \/ WriteRow(e)
==============================================================================
