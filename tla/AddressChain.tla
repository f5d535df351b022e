---------------------------- MODULE AddressChain ----------------------------
(***************************************************************************)
(* What a hierarchical wallet promises about its addresses, whatever loop  *)
(* produces them: a chain is a set of child numbers; a call that succeeds  *)
(* extends one chain by the next consecutive numbers, leaving out exactly  *)
(* those the seed makes impossible; a call that fails adds nothing; the    *)
(* largest uint32 is never used, so that "one after the last" never wraps; *)
(* and a number, once used, stays used.                                    *)
(***************************************************************************)
EXTENDS Integers

CONSTANTS
  MaxUint32,            \* the largest child number that exists
  FirstHardenedChild,   \* children from here on need the private key
  Public,               \* TRUE: only the public key is known
  Chains                \* the chains the wallet has

VARIABLES
  impossible,   \* for each chain, the child numbers that have no key
  used          \* for each chain, the child numbers that have an address

vars == <<impossible, used>>

Limit == IF Public THEN FirstHardenedChild ELSE MaxUint32

\* The smallest number above every used one.
FirstFree(S) ==
  CHOOSE n \in 0 .. MaxUint32 :
    /\ \A k \in S : k < n
    /\ n = 0 \/ n - 1 \in S

Init ==
  /\ impossible \in [Chains -> SUBSET (0 .. MaxUint32)]
  /\ used = [c \in Chains |-> {}]

Extend(c, count) ==
  LET first == FirstFree(used[c]) IN
  /\ first + count <= Limit
  /\ used' = [used EXCEPT ![c] = @ \cup ((first .. first + count - 1) \ impossible[c])]
  /\ UNCHANGED impossible

Next == \E c \in Chains, count \in 1 .. MaxUint32 : Extend(c, count)

Spec == Init /\ [][Next]_vars
=============================================================================
