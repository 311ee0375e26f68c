---------------------------- MODULE TokenCredit ----------------------------
(***************************************************************************)
(* The estimators of core_algos.py that give every token of one response   *)
(* its own advantage: GAE, REINFORCE++ and ReMax, before the whitening.    *)
(* mask tells which tokens the model wrote; the others are observations    *)
(* the tools returned.  gamma and lam may be any number: what is stated    *)
(* of them are identities of polynomials.                                  *)
(***************************************************************************)
EXTENDS Integers, Sequences, SequencesExt

\* Mutation of Gae: the value of an observation token is the next value of the
\* token before it.
GaeThroughObservations(reward, value, mask, gamma, lam) ==
  LET from[t \in 1 .. Len(mask) + 1] ==
        IF t > Len(mask) THEN [next |-> 0, advantage |-> 0]
        ELSE [next |-> value[t],
              advantage |->
                IF mask[t]
                THEN reward[t] + gamma * from[t + 1].next - value[t]
                     + gamma * lam * from[t + 1].advantage
                ELSE from[t + 1].advantage]
  IN [t \in DOMAIN mask |-> from[t].advantage]

\* nextvalues and lastgaelam are carried over the observation tokens unchanged.
Gae(reward, value, mask, gamma, lam) ==
  LET from[t \in 1 .. Len(mask) + 1] ==
        IF t > Len(mask) THEN [next |-> 0, advantage |-> 0]
        ELSE IF ~mask[t] THEN from[t + 1]
        ELSE [next |-> value[t],
              advantage |-> reward[t] + gamma * from[t + 1].next - value[t]
                            + gamma * lam * from[t + 1].advantage]
  IN [t \in DOMAIN mask |-> from[t].advantage]

\* The running return is reset at every token the model did not write.
ReinforcePlusPlus(reward, mask, gamma) ==
  LET from[t \in 1 .. Len(mask) + 1] ==
        IF t > Len(mask) THEN 0
        ELSE reward[t] + gamma * (IF t < Len(mask) /\ mask[t + 1] THEN from[t + 1] ELSE 0)
  IN [t \in DOMAIN mask |-> from[t]]

\* The rewards from a token on that lie on tokens of the model, less a baseline.
ReMax(reward, baseline, mask) ==
  LET Credited(t) == IF mask[t] THEN reward[t] ELSE 0
      from[t \in 1 .. Len(mask) + 1] == IF t > Len(mask) THEN 0 ELSE Credited(t) + from[t + 1]
  IN [t \in DOMAIN mask |-> from[t] - (IF mask[t] THEN baseline ELSE 0)]

\* A response without its observation tokens.
ModelTokens(mask) ==
  LET upto[n \in 0 .. Len(mask)] ==
        IF n = 0 THEN <<>>
        ELSE IF mask[n] THEN Append(upto[n - 1], n)
        ELSE upto[n - 1]
  IN upto[Len(mask)]
Without(s, mask) == [k \in DOMAIN ModelTokens(mask) |-> s[ModelTokens(mask)[k]]]
=============================================================================
