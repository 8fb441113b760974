-------------------------- MODULE MCMerchantCatalog --------------------------
(***************************************************************************)
(* Values for model checking MerchantCatalog.                              *)
(***************************************************************************)
EXTENDS MerchantCatalog, TLC

(* Requests, tokens, users, products and fields are interchangeable.       *)
Symmetry ==
    Permutations(Calls) \cup Permutations(Tokens)
      \cup Permutations(Users) \cup Permutations(Products)
      \cup Permutations(Fields)
==============================================================================
