-------------------------- MODULE MCSessionStore --------------------------
(* Small instances of SessionStore. *)
EXTENDS SessionStore, TLC

(* Handlers, phones, readers and ciphertexts are only compared.  Used in   *)
(* runs without liveness properties.                                       *)
Symmetry == Permutations(Requests) \cup Permutations(Phones)
            \cup Permutations(Readers) \cup Permutations(Etags)
============================================================================
