--------------------------- MODULE RolloutProofs ----------------------------
(***************************************************************************)
(* Theorems about Rollout: for any number of mints, rotations and deploys. *)
(***************************************************************************)
EXTENDS Rollout, TLAPS

(* What is applied so far agrees with the flag, what is left does not; the *)
(* proxy is replaced either way.                                           *)
AppliedSoFar ==
    Applying => /\ \A x \in Resource \ apply.todo : deployed[x] = apply.on
                /\ \A x \in apply.todo \ {"proxy"} : deployed[x] # apply.on
                /\ settled = "none"
                /\ apply.on => apply.seed # Absent

(* A parameter Terraform manages is there. *)
ManagedExists == deployed["param"] => param # Absent

(* Completed with the flag off, nothing is on and nothing is running. *)
OffIsOff == settled = "off" => ~Applying /\ \A x \in Resource : ~deployed[x]

KeptIsOn == kept => /\ param # Absent
                    /\ \A x \in Resource : deployed[x]
                    /\ Applying => apply.on

(* Removed: neither the deploy that is running nor the next can be on. *)
RemovedIsOff == removed => /\ ~deployed["proxy"]
                           /\ secret = Absent
                           /\ Applying => ~apply.on

(* The parameter is not ahead of Twitch; a rotated token is abreast of it. *)
TokensFollow == /\ param # Absent => param.gen <= live[param.mint]
                /\ inv.at \in {"refresh", "put"} => inv.held # Absent
                /\ inv.at = "put" => inv.held.gen = live[inv.held.mint]

IInv == /\ TypeOK
        /\ AppliedSoFar
        /\ ManagedExists
        /\ OffIsOff
        /\ KeptIsOn
        /\ RemovedIsOff
        /\ TokensFollow

USE DEF Mint, Token, Resource

(* Before the first deploy with the feature. *)
LEMMA InitInv == Init => IInv
<1> SUFFICES ASSUME Init PROVE IInv
  OBVIOUS
<1>1. /\ apply \in [on : BOOLEAN, todo : SUBSET Resource,
                   seed : Mint \cup {Absent}]
      /\ ~Applying
  BY DEF Init, NoApply, Applying
<1>2. /\ inv \in [at : {"idle", "queued", "get", "refresh", "put"},
                 held : Token \cup {Absent}]
      /\ inv.at = "idle"
  BY DEF Init, NoInvocation
<1>3. minted \in 0..MaxMint /\ deploys \in 0..MaxDeploy
      /\ live \in [Mint -> 0..MaxGen]
  BY BoundAssumption DEF Init
<1>4. TypeOK
  BY <1>1, <1>2, <1>3 DEF Init, TypeOK
<1> QED
  BY <1>1, <1>2, <1>4
     DEF Init, IInv, AppliedSoFar, ManagedExists, OffIsOff, KeptIsOn,
         RemovedIsOff, TokensFollow

(* What every step of a deploy keeps, whichever resource it is about.      *)
LEMMA AppliedKeeps ==
  ASSUME IInv, NEW x \in Resource, Applied(x)
  PROVE  /\ deployed' \in [Resource -> BOOLEAN]
         /\ deployed' = [deployed EXCEPT ![x] = apply.on]
         /\ apply' \in [on : BOOLEAN, todo : SUBSET Resource,
                        seed : Mint \cup {Absent}]
         /\ settled' \in {"none", "on", "off"} /\ seed' \in Mint \cup {Absent}
         /\ kept' \in BOOLEAN /\ removed' \in BOOLEAN
         /\ AppliedSoFar' /\ OffIsOff' /\ RemovedIsOff'
         /\ kept' => /\ \A y \in Resource : deployed'[y]
                     /\ Applying' => apply'.on
                     /\ apply.on
<1> USE AbsentAssumption
<1> DEFINE rest == apply.todo \ {x}
<1>1. /\ x \in apply.todo /\ Applying
      /\ deployed' = [deployed EXCEPT ![x] = apply.on]
      /\ deployed' \in [Resource -> BOOLEAN]
      /\ UNCHANGED secret
  BY DEF IInv, TypeOK, Applied, Applying
<1>2. CASE rest # {}
  <2>1. apply' = [apply EXCEPT !.todo = rest] /\ UNCHANGED history
    BY <1>2 DEF Applied
  <2>2. /\ apply'.on = apply.on /\ apply'.todo = rest /\ apply'.seed = apply.seed
        /\ apply' \in [on : BOOLEAN, todo : SUBSET Resource,
                       seed : Mint \cup {Absent}]
    BY <2>1 DEF IInv, TypeOK
  <2>3. AppliedSoFar'
    BY <1>1, <2>1, <2>2 DEF IInv, TypeOK, AppliedSoFar, Applying, history
  <2>4. OffIsOff' /\ RemovedIsOff'
    BY <1>1, <2>1, <2>2 DEF IInv, TypeOK, AppliedSoFar, OffIsOff, RemovedIsOff,
                            Applying, history
  <2>5. kept' => /\ \A y \in Resource : deployed'[y]
                 /\ Applying' => apply'.on
                 /\ apply.on
    BY <1>1, <2>1, <2>2 DEF IInv, TypeOK, KeptIsOn, history
  <2> QED
    BY <1>1, <2>1, <2>2, <2>3, <2>4, <2>5 DEF IInv, TypeOK, history
<1>3. CASE rest = {}
  <2>1. /\ apply' = NoApply
        /\ settled' = IF apply.on THEN "on" ELSE "off"
        /\ seed' = apply.seed
        /\ kept' = apply.on
        /\ removed' = (removed \/ (~apply.on /\ secret = Absent))
    BY <1>3 DEF Applied
  <2>2. \A y \in Resource : deployed'[y] = apply.on
    BY <1>1, <1>3 DEF IInv, TypeOK, AppliedSoFar
  <2>3. ~Applying'
    BY <2>1 DEF Applying, NoApply
  <2>4. AppliedSoFar' /\ OffIsOff'
    BY <2>1, <2>2, <2>3 DEF AppliedSoFar, OffIsOff, IInv, TypeOK
  <2>5. RemovedIsOff'
    BY <1>1, <2>1, <2>2, <2>3 DEF IInv, TypeOK, RemovedIsOff
  <2> QED
    BY <1>1, <2>1, <2>2, <2>3, <2>4, <2>5 DEF IInv, TypeOK, NoApply
<1> QED
  BY <1>2, <1>3

(* Every step of an apply, in any order, keeps the invariant. *)
LEMMA ApplyInv ==
  ASSUME IInv, ApplyStep
  PROVE  IInv'
<1> USE BoundAssumption, AbsentAssumption
<1>1. CASE SeedParam
  <2>1. Applied("param") /\ param' = Seed(apply.seed) /\ UNCHANGED <<gate, cached>>
    BY <1>1 DEF SeedParam
  <2>a. apply.on /\ Applying
    BY <1>1 DEF SeedParam, Applied, Applying
  <2>b. apply.seed \in Mint
    BY <2>a DEF AppliedSoFar, IInv, TypeOK
  <2>2. param' \in Token /\ param'.gen = 0
    BY <2>1, <2>b DEF Seed
  <2>3. param' # Absent
    BY <2>2
  <2>4. TokensFollow'
    BY <2>1, <2>2 DEF IInv, TypeOK, TokensFollow, Applied, twitch
  <2> QED
    BY <2>1, <2>2, <2>3, <2>4, AppliedKeeps
       DEF IInv, TypeOK, ManagedExists, KeptIsOn, Applied, twitch
<1>2. CASE DestroyParam
  <2>1. Applied("param") /\ ~apply.on /\ param' = Absent
        /\ UNCHANGED <<gate, cached>>
    BY <1>2 DEF DestroyParam
  <2>2. ManagedExists' /\ KeptIsOn'
    BY <2>1, AppliedKeeps DEF IInv, TypeOK, ManagedExists, KeptIsOn
  <2> QED
    BY <2>1, <2>2, AppliedKeeps DEF IInv, TypeOK, TokensFollow, Applied, twitch
<1>3. ASSUME NEW x \in Resource \ {"param"}, Applied(x), UNCHANGED param,
             gate' \in BOOLEAN, cached' \in Token \cup {Absent}
      PROVE  IInv'
  <2>1. deployed'["param"] = deployed["param"]
    BY <1>3, AppliedKeeps DEF IInv, TypeOK
  <2>2. ManagedExists' /\ KeptIsOn'
    BY <1>3, <2>1, AppliedKeeps DEF IInv, TypeOK, ManagedExists, KeptIsOn
  <2> QED
    BY <1>3, <2>2, AppliedKeeps DEF IInv, TypeOK, TokensFollow, Applied, twitch
<1>4. ASSUME NEW x \in Resource, ApplyGated(x) PROVE IInv'
  BY <1>3, <1>4 DEF ApplyGated, IInv, TypeOK
<1>5. CASE ReplaceProxy
  BY <1>3, <1>5 DEF ReplaceProxy
<1>6. CASE Abort
  <2>1. apply' = NoApply /\ ~Applying'
    BY <1>6 DEF Abort, Applying, NoApply
  <2>2. apply' \in [on : BOOLEAN, todo : SUBSET Resource,
                    seed : Mint \cup {Absent}]
    BY <2>1 DEF NoApply
  <2>3. UNCHANGED <<twitch, secret, param, deployed, gate, cached, deploys, inv,
                    history>>
    BY <1>6 DEF Abort
  <2>4. TypeOK'
    BY <2>2, <2>3 DEF IInv, TypeOK, twitch, history
  <2>5. AppliedSoFar' /\ OffIsOff' /\ KeptIsOn' /\ RemovedIsOff'
    BY <2>1, <2>3 DEF IInv, AppliedSoFar, OffIsOff, KeptIsOn, RemovedIsOff,
                      history
  <2>6. ManagedExists' /\ TokensFollow'
    BY <2>3 DEF IInv, ManagedExists, TokensFollow, twitch
  <2> QED
    BY <2>4, <2>5, <2>6 DEF IInv
<1> QED
  BY <1>1, <1>2, <1>4, <1>5, <1>6 DEF ApplyStep

(* A push or a dispatch that passes its plan keeps it. *)
LEMMA DeployInv ==
  ASSUME IInv, NEW event \in {"push", "workflow_dispatch"},
         NEW input \in BOOLEAN, Deploy(event, input)
  PROVE  IInv'
<1> USE AbsentAssumption
<1> DEFINE on == Flag(event, input)
           todo == {x \in Resource : Gated(on, x)} \cup {"proxy"}
<1>1. on \in BOOLEAN
  BY DEF Flag
<1>2. /\ apply' = [on |-> on, todo |-> todo, seed |-> secret]
      /\ deploys' = deploys + 1 /\ deploys < MaxDeploy
      /\ settled' = "none"
      /\ kept' = (kept /\ (event = "workflow_dispatch" => input))
      /\ on => secret # Absent
      /\ UNCHANGED <<twitch, secret, param, deployed, gate, cached, inv, seed,
                     removed>>
  BY DEF Deploy, Precondition
<1>3. /\ \A x \in Resource \ todo : deployed[x] = on
      /\ \A x \in todo \ {"proxy"} : deployed[x] # on
      /\ todo \subseteq Resource
  BY DEF Gated
<1>4. kept' => kept /\ on
  BY <1>2 DEF Flag
<1> HIDE DEF on, todo
<1>5. /\ apply'.on = on /\ apply'.todo = todo /\ apply'.seed = secret
      /\ apply' \in [on : BOOLEAN, todo : SUBSET Resource,
                     seed : Mint \cup {Absent}]
  BY <1>1, <1>2, <1>3 DEF IInv, TypeOK
<1>6. deploys' \in 0..MaxDeploy /\ kept' \in BOOLEAN
  BY <1>2, BoundAssumption DEF IInv, TypeOK
<1>7. TypeOK'
  BY <1>2, <1>5, <1>6 DEF IInv, TypeOK, twitch
<1>8. AppliedSoFar'
  BY <1>2, <1>3, <1>5 DEF AppliedSoFar
<1>9. OffIsOff' /\ ManagedExists' /\ TokensFollow'
  BY <1>2 DEF OffIsOff, ManagedExists, TokensFollow, IInv, twitch
<1>10. KeptIsOn' /\ RemovedIsOff'
  BY <1>2, <1>4, <1>5 DEF KeptIsOn, RemovedIsOff, IInv
<1> QED
  BY <1>7, <1>8, <1>9, <1>10 DEF IInv

(* The operator's steps keep it, at any point of a deploy. *)
LEMMA OperateInv ==
  ASSUME IInv, Operate
  PROVE  IInv'
<1> USE BoundAssumption, AbsentAssumption
<1>1. CASE StoreSecret
  <2>a. minted' \in 0..MaxMint /\ secret' \in Mint
    BY <1>1, BoundAssumption DEF StoreSecret, IInv, TypeOK
  <2>b. /\ UNCHANGED <<live, param, deployed, gate, cached, apply, deploys, inv,
                       settled, seed, kept>>
        /\ removed' = FALSE
    BY <1>1 DEF StoreSecret
  <2>c. /\ live' = live /\ param' = param /\ deployed' = deployed
        /\ gate' = gate /\ cached' = cached /\ apply' = apply
        /\ deploys' = deploys /\ inv' = inv /\ settled' = settled
        /\ seed' = seed /\ kept' = kept /\ removed' \in BOOLEAN
    BY <2>b
  <2>d. TypeOK
    BY DEF IInv
  <2> HIDE DEF Mint, Token, Resource
  <2>1. TypeOK'
    BY ONLY <2>a, <2>c, <2>d DEF TypeOK
  <2>2. AppliedSoFar' /\ OffIsOff' /\ KeptIsOn'
    BY <1>1 DEF StoreSecret, IInv, AppliedSoFar, Applying, OffIsOff, KeptIsOn
  <2>3. ManagedExists' /\ RemovedIsOff' /\ TokensFollow'
    BY <1>1 DEF StoreSecret, IInv, ManagedExists, RemovedIsOff, TokensFollow
  <2> QED
    BY <2>1, <2>2, <2>3 DEF IInv
<1>2. CASE DeleteSecret
  <2>1. TypeOK'
    BY <1>2 DEF DeleteSecret, IInv, TypeOK, twitch
  <2>2. AppliedSoFar' /\ OffIsOff' /\ KeptIsOn'
    BY <1>2 DEF DeleteSecret, IInv, AppliedSoFar, Applying, OffIsOff, KeptIsOn
  <2>3. ManagedExists' /\ RemovedIsOff' /\ TokensFollow'
    BY <1>2 DEF DeleteSecret, IInv, OffIsOff, ManagedExists, RemovedIsOff,
                Applying, TokensFollow, twitch
  <2> QED
    BY <2>1, <2>2, <2>3 DEF IInv
<1>3. CASE ClearGate
  <2>1. UNCHANGED <<twitch, secret, param, deployed, apply, deploys, inv,
                    settled, seed, kept, removed>>
        /\ gate' \in BOOLEAN /\ cached' \in Token \cup {Absent}
    BY <1>3 DEF ClearGate, history
  <2>2. TypeOK'
    BY <2>1 DEF IInv, TypeOK, twitch
  <2>3. AppliedSoFar' /\ OffIsOff' /\ KeptIsOn' /\ RemovedIsOff'
    BY <2>1 DEF IInv, AppliedSoFar, Applying, OffIsOff, KeptIsOn, RemovedIsOff
  <2>4. ManagedExists' /\ TokensFollow'
    BY <2>1 DEF IInv, ManagedExists, TokensFollow, twitch
  <2> QED
    BY <2>2, <2>3, <2>4 DEF IInv
<1> QED
  BY <1>1, <1>2, <1>3 DEF Operate

(* What the keepalive leaves alone. *)
LEMMA InvocationKeeps ==
  ASSUME IInv, NEW at \in {"idle", "queued", "get", "refresh", "put"},
         NEW held \in Token \cup {Absent}, Invocation(at, held),
         param' \in Token \cup {Absent}, param # Absent => param' # Absent,
         minted' = minted, live' \in [Mint -> 0..MaxGen], TokensFollow'
  PROVE  IInv'
  BY DEF Invocation, IInv, TypeOK, AppliedSoFar, Applying, ManagedExists,
         OffIsOff, KeptIsOn, RemovedIsOff, history

(* The keepalive's steps keep it, at any point of a deploy. *)
LEMMA KeepaliveInv ==
  ASSUME IInv, Keepalive
  PROVE  IInv'
<1> USE BoundAssumption, AbsentAssumption
<1>1. ASSUME NEW at \in {"idle", "queued", "get"}, Invocation(at, Absent),
             UNCHANGED <<twitch, param>>
      PROVE  IInv'
  <2>1. inv'.at = at
    BY <1>1 DEF Invocation
  <2>2. TokensFollow'
    BY <1>1, <2>1 DEF IInv, TokensFollow, twitch
  <2> QED
    BY <1>1, <2>2, InvocationKeeps DEF IInv, TypeOK, twitch
<1>2. CASE GetBlob
  <2>1. Invocation("refresh", param) /\ param # Absent
        /\ UNCHANGED <<twitch, param>>
    BY <1>2 DEF GetBlob
  <2>2. TokensFollow'
    BY <2>1 DEF Invocation, IInv, TokensFollow, twitch
  <2> QED
    BY <2>1, <2>2, InvocationKeeps DEF IInv, TypeOK, twitch
<1>3. CASE Rotate
  <2> DEFINE t == inv.held
             next == [t EXCEPT !.gen = @ + 1]
  <2>1. /\ t \in Token /\ t.gen = live[t.mint] /\ t.gen < MaxGen
        /\ live' = [live EXCEPT ![t.mint] = t.gen + 1]
        /\ Invocation("put", next) /\ UNCHANGED <<minted, param>>
    BY <1>3 DEF Rotate, IInv, TypeOK, TokensFollow
  <2>2. next \in Token /\ next.mint = t.mint /\ next.gen = t.gen + 1
    BY <2>1
  <2>3. /\ live' \in [Mint -> 0..MaxGen] /\ live'[t.mint] = t.gen + 1
        /\ \A m \in Mint : live[m] <= live'[m]
    BY <2>1 DEF IInv, TypeOK
  <2> HIDE DEF next
  <2>4. inv'.at = "put" /\ inv'.held = next
    BY <2>1 DEF Invocation
  <2>5. param # Absent => param'.gen <= live'[param'.mint]
    BY <2>1, <2>3 DEF IInv, TypeOK, TokensFollow
  <2>6. TokensFollow'
    BY <2>1, <2>2, <2>3, <2>4, <2>5 DEF TokensFollow
  <2> QED
    BY <2>1, <2>2, <2>3, <2>6, InvocationKeeps DEF IInv, TypeOK
<1>4. CASE PutBlob
  <2>1. /\ inv.held \in Token /\ inv.held.gen = live[inv.held.mint]
        /\ param' = inv.held
        /\ Invocation("idle", Absent) /\ UNCHANGED twitch
    BY <1>4 DEF PutBlob, IInv, TypeOK, TokensFollow
  <2>2. inv'.at = "idle"
    BY <2>1 DEF Invocation
  <2>3. TokensFollow'
    BY <2>1, <2>2 DEF TokensFollow, twitch, IInv, TypeOK
  <2> QED
    BY <2>1, <2>3, InvocationKeeps DEF IInv, TypeOK, twitch
<1>5. CASE Fire \/ Start \/ InvocationFails
  BY <1>1, <1>5 DEF Fire, Start, InvocationFails
<1> QED
  BY <1>2, <1>3, <1>4, <1>5 DEF Keepalive

(* Every step keeps it. *)
LEMMA NextInv == IInv /\ [Next]_vars => IInv'
<1> SUFFICES ASSUME IInv, [Next]_vars PROVE IInv'
  OBVIOUS
<1>1. CASE ServeMagic
  BY <1>1 DEF ServeMagic, IInv, TypeOK, AppliedSoFar, Applying, ManagedExists,
              OffIsOff, KeptIsOn, RemovedIsOff, TokensFollow, twitch, history
<1>2. CASE UNCHANGED vars
  BY <1>2 DEF vars, IInv, TypeOK, AppliedSoFar, Applying, ManagedExists,
              OffIsOff, KeptIsOn, RemovedIsOff, TokensFollow, twitch, history
<1> QED
  BY <1>1, <1>2, OperateInv, DeployInv, ApplyInv, KeepaliveInv DEF Next

(* It holds in every state of every behaviour. *)
LEMMA Invariance == Spec => []IInv
  BY InitInv, NextInv, PTL DEF Spec

-----------------------------------------------------------------------------

(* Every variable keeps its type for any number of deploys. *)
THEOREM TypeCorrect == Spec => []TypeOK
  BY Invariance, PTL DEF IInv

(* The link stays on across pushes, whatever they interleave with and      *)
(* wherever they stop, until a dispatch asks for off.                      *)
THEOREM PushesKeepItOn == Spec => []StaysEnabled
<1>1. IInv => StaysEnabled
  BY DEF IInv, KeptIsOn, StaysEnabled
<1> QED
  BY <1>1, Invariance, PTL

(* A removed link is revived by no sequence of deploys until the operator  *)
(* stores a secret again.                                                  *)
THEOREM NotRevived == Spec => []RemovedStaysRemoved
<1>1. IInv => RemovedStaysRemoved
  BY DEF IInv, RemovedIsOff, RemovedStaysRemoved, Serves
<1> QED
  BY <1>1, Invariance, PTL

(* After a deploy with the flag off, nothing that was under way reaches    *)
(* the parameter.                                                          *)
THEOREM UntouchedWhenOff == Spec => OffMeansUntouched
<1>1. IInv /\ [Next]_vars => (settled = "off" => param' = param)
  <2> SUFFICES ASSUME IInv, [Next]_vars, settled = "off" PROVE param' = param
    OBVIOUS
  <2>1. ~Applying /\ ~deployed["write"]
    BY DEF IInv, OffIsOff
  <2>2. ~ApplyStep
    BY <2>1 DEF ApplyStep, SeedParam, DestroyParam, ApplyGated, ReplaceProxy,
                Abort, Applied, Applying
  <2>3. ~PutBlob
    BY <2>1 DEF PutBlob
  <2> QED
    BY <2>2, <2>3 DEF Next, vars, Operate, StoreSecret, DeleteSecret, ClearGate,
                      Deploy, Keepalive, Fire, Start, GetBlob, Rotate,
                      InvocationFails, ServeMagic
<1>2. IInv /\ [Next]_vars => [settled = "off" => param' = param]_vars
  BY <1>1
<1> QED
  BY <1>2, Invariance, PTL DEF Spec, OffMeansUntouched

(* Neither a deploy nor a late write replaces a token by an older one of   *)
(* the same mint.                                                          *)
THEOREM NeverReverted == Spec => DeployNeverReverts
<1> DEFINE Grows == param # Absent /\ param' # Absent /\ param.mint = param'.mint
                      => param'.gen >= param.gen
<1>1. IInv /\ [Next]_vars => Grows
  <2> SUFFICES ASSUME IInv, [Next]_vars, param # Absent, param' # Absent,
                      param.mint = param'.mint
               PROVE  param'.gen >= param.gen
    OBVIOUS
  <2>1. param.gen \in 0..MaxGen
    BY DEF IInv, TypeOK
  <2>2. ASSUME UNCHANGED param PROVE param'.gen >= param.gen
    BY <2>1, <2>2, BoundAssumption
  <2>3. CASE PutBlob
    BY <2>3, <2>1, BoundAssumption DEF PutBlob, IInv, TokensFollow, TypeOK
  <2>4. ~SeedParam
    BY DEF SeedParam, Applied, Applying, IInv, AppliedSoFar, TypeOK
  <2>5. ~DestroyParam
    BY DEF DestroyParam
  <2> QED
    BY <2>2, <2>3, <2>4, <2>5
       DEF Next, vars, Operate, StoreSecret, DeleteSecret, ClearGate, Deploy,
           ApplyStep, ApplyGated, ReplaceProxy, Abort, Keepalive, Fire, Start,
           GetBlob, Rotate, InvocationFails, ServeMagic
<1>2. IInv /\ [Next]_vars => [Grows]_vars
  BY <1>1
<1> QED
  BY <1>2, Invariance, PTL DEF Spec, DeployNeverReverts

=============================================================================
