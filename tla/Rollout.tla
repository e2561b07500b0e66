------------------------------ MODULE Rollout -------------------------------
(***************************************************************************)
(* Turning the App Review magic link on and off in production: the         *)
(* workflow (.github/workflows/deploy-production.yml), the resources that  *)
(* terraform/lambda.tf and magic-keepalive.tf gate on                      *)
(* reviewer_account_refresh_enabled, the operator's script                 *)
(* (scripts/setup-magic-link.sh), and what runs meanwhile: an invocation   *)
(* of the keepalive and requests for /api/magic.                           *)
(*                                                                         *)
(* Terraform applies independent resources in any order and may stop in    *)
(* between.  A token is [mint, gen]: the operator's mint it descends from  *)
(* and how often Twitch has rotated it since.                              *)
(***************************************************************************)
EXTENDS Integers

CONSTANTS MaxMint,   \* bound: tokens the operator mints
          MaxGen,    \* bound: rotations of a minted token
          MaxDeploy, \* bound: deploys
          Absent     \* no parameter, no secret, nothing cached

ASSUME BoundAssumption == MaxMint \in Nat /\ MaxGen \in Nat /\ MaxDeploy \in Nat

VARIABLES
    minted,   \* how often the operator has minted a token
    live,     \* the generation of each mint that Twitch still accepts
    secret,   \* the mint in the MAGIC_LINK_BLOB_PRODUCTION secret
    param,    \* the token in the SSM parameter
    deployed, \* which gated resources are deployed as on
    gate,     \* whether the proxy has its MAGIC_LINK_API_KEY
    cached,   \* the blob a proxy process has cached
    apply,    \* the deploy that is running
    deploys,  \* how many deploys were started
    inv,      \* the keepalive's invocation and the token it holds
    settled,  \* history: the flag of the last deploy, if it completed
    seed,     \* history: the secret that deploy was given
    kept,     \* history: on, and nobody has asked for off since
    removed   \* history: off, the secret deleted, and none stored since

(* The gated resources; proxy is the environment of the proxy Lambda.      *)
Resource == {"param", "read", "write", "guard", "schedule", "proxy"}

twitch == <<minted, live>>
history == <<settled, seed, kept, removed>>
vars == <<twitch, secret, param, deployed, gate, cached, apply, deploys, inv,
          history>>

Mint == 1..MaxMint
Token == [mint : Mint, gen : 0..MaxGen]
ASSUME AbsentAssumption == Absent \notin Mint \cup Token

Seed(m) == [mint |-> m, gen |-> 0]
NoApply == [on |-> FALSE, todo |-> {}, seed |-> Absent]
NoInvocation == [at |-> "idle", held |-> Absent]
Applying == apply.todo # {}

(* Before the first deploy with the feature. *)
Init == /\ minted = 0
        /\ live = [m \in Mint |-> 0]
        /\ secret = Absent
        /\ param = Absent
        /\ deployed = [x \in Resource |-> FALSE]
        /\ gate = TRUE
        /\ cached = Absent
        /\ apply = NoApply
        /\ deploys = 0
        /\ inv = NoInvocation
        /\ settled = "none" /\ seed = Absent
        /\ kept = FALSE
        /\ removed = FALSE

-----------------------------------------------------------------------------
(* The operator. *)

(* setup prints a new token, and the operator stores it as the secret. *)
StoreSecret ==
    /\ minted < MaxMint
    /\ minted' = minted + 1
    /\ secret' = minted + 1
    /\ removed' = FALSE
    /\ UNCHANGED <<live, param, deployed, gate, cached, apply, deploys, inv,
                   settled, seed, kept>>

DeleteSecret ==
    /\ secret # Absent
    /\ secret' = Absent
    /\ removed' = (settled = "off")
    /\ UNCHANGED <<twitch, param, deployed, gate, cached, apply, deploys, inv,
                   settled, seed, kept>>

(* teardown clears MAGIC_LINK_API_KEY of the live proxy, which restarts it. *)
ClearGate ==
    /\ gate
    /\ gate' = FALSE
    /\ cached' = Absent
    /\ UNCHANGED <<twitch, secret, param, deployed, apply, deploys, inv,
                   history>>

-----------------------------------------------------------------------------
(* A deploy. *)

(* Mutant of Flag: the expression before the fix its comment tells of.     *)
FlagInputOnly(event, input) == input

(* TF_VAR_reviewer_account_refresh_enabled; a push carries no input.       *)
Flag(event, input) == input \/ event # "workflow_dispatch"

(* Mutant of Precondition: an empty secret is not noticed.                 *)
PreconditionDropped(on) == TRUE

(* terraform plan refuses to turn on what has no seed.                     *)
Precondition(on) == on => secret # Absent

(* Mutant of Gated: the policy to write the parameter has no count.        *)
GatedKeepsWrite(on, x) == deployed[x] # on /\ (x = "write" => on)

(* Mutant of Gated: the parameter's value is not in ignore_changes.        *)
GatedByValue(on, x) == deployed[x] # on \/ (x = "param" /\ on)

(* What a plan changes: count and conditionals follow the flag, and the    *)
(* value of a parameter that is there is ignored.                          *)
Gated(on, x) == deployed[x] # on

Deploy(event, input) ==
    LET on == Flag(event, input)
    IN /\ deploys < MaxDeploy /\ ~Applying
       /\ Precondition(on)
       (* timestamp() replaces the proxy every time *)
       /\ apply' = [on |-> on,
                    todo |-> {x \in Resource : Gated(on, x)} \cup {"proxy"},
                    seed |-> secret]
       /\ deploys' = deploys + 1
       /\ settled' = "none"
       /\ kept' = (kept /\ (event = "workflow_dispatch" => input))
       /\ UNCHANGED <<twitch, secret, param, deployed, gate, cached, inv, seed,
                      removed>>

(* Resource x is done; with the last one the deploy has completed.         *)
Applied(x) ==
    LET rest == apply.todo \ {x}
        on == apply.on
    IN /\ x \in apply.todo
       /\ deployed' = [deployed EXCEPT ![x] = on]
       /\ IF rest # {}
          THEN apply' = [apply EXCEPT !.todo = rest] /\ UNCHANGED history
          ELSE /\ apply' = NoApply
               /\ settled' = IF on THEN "on" ELSE "off"
               /\ seed' = apply.seed
               /\ kept' = on
               /\ removed' = (removed \/ (~on /\ secret = Absent))
       /\ UNCHANGED <<twitch, secret, deploys, inv>>

(* aws_ssm_parameter is given the secret; SSM refuses to create a          *)
(* parameter that is there already.                                        *)
SeedParam ==
    /\ apply.on
    /\ ~deployed["param"] => param = Absent
    /\ Applied("param")
    /\ param' = Seed(apply.seed)
    /\ UNCHANGED <<gate, cached>>

DestroyParam ==
    /\ ~apply.on
    /\ Applied("param")
    /\ param' = Absent
    /\ UNCHANGED <<gate, cached>>

(* The policies, the keepalive's own guard and its schedule.               *)
ApplyGated(x) ==
    /\ x \in {"read", "write", "guard", "schedule"}
    /\ Applied(x)
    /\ UNCHANGED <<param, gate, cached>>

(* The new processes have the gate key and nothing cached.                 *)
ReplaceProxy ==
    /\ Applied("proxy")
    /\ gate' = TRUE
    /\ cached' = Absent
    /\ UNCHANGED param

(* The apply fails or times out; what it has changed stays.                *)
Abort ==
    /\ Applying
    /\ apply' = NoApply
    /\ UNCHANGED <<twitch, secret, param, deployed, gate, cached, deploys, inv,
                   history>>

-----------------------------------------------------------------------------
(* The keepalive, one invocation at a time. *)

Invocation(at, held) ==
    /\ inv' = [at |-> at, held |-> held]
    /\ UNCHANGED <<secret, deployed, gate, cached, apply, deploys, history>>

(* The rule fires; the event waits for the function. *)
Fire == /\ deployed["schedule"] /\ inv.at = "idle"
        /\ Invocation("queued", Absent)
        /\ UNCHANGED <<twitch, param>>

(* handle starts with the environment of that moment. *)
Start == /\ inv.at = "queued"
         /\ IF deployed["guard"] THEN Invocation("get", Absent)
            ELSE Invocation("idle", Absent)
         /\ UNCHANGED <<twitch, param>>

(* Get, with the policy that also lets it write. *)
GetBlob == /\ inv.at = "get" /\ deployed["write"] /\ param # Absent
           /\ Invocation("refresh", param)
           /\ UNCHANGED <<twitch, param>>

(* RefreshToken: good once. *)
Rotate == /\ inv.at = "refresh"
          /\ LET t == inv.held
             IN /\ t.gen = live[t.mint] /\ t.gen < MaxGen
                /\ live' = [live EXCEPT ![t.mint] = t.gen + 1]
                /\ Invocation("put", [t EXCEPT !.gen = @ + 1])
          /\ UNCHANGED <<minted, param>>

(* Put overwrites the parameter, and creates it if it is not there. *)
PutBlob == /\ inv.at = "put" /\ deployed["write"]
           /\ param' = inv.held
           /\ Invocation("idle", Absent)
           /\ UNCHANGED twitch

(* An error or a timeout ends the invocation where it is. *)
InvocationFails == /\ inv.at # "idle"
                   /\ Invocation("idle", Absent)
                   /\ UNCHANGED <<twitch, param>>

-----------------------------------------------------------------------------
(* /api/magic with the right key. *)

Readable == deployed["proxy"] /\ deployed["read"] /\ param # Absent

Serves == gate /\ deployed["proxy"] /\ (Readable \/ cached # Absent)

ServeMagic == /\ gate /\ Readable
              /\ cached' = param
              /\ UNCHANGED <<twitch, secret, param, deployed, gate, apply,
                             deploys, inv, history>>

-----------------------------------------------------------------------------

Operate == StoreSecret \/ DeleteSecret \/ ClearGate

ApplyStep == \/ SeedParam
             \/ DestroyParam
             \/ \E x \in Resource : ApplyGated(x)
             \/ ReplaceProxy
             \/ Abort

Keepalive == Fire \/ Start \/ GetBlob \/ Rotate \/ PutBlob \/ InvocationFails

Next == \/ Operate
        \/ Deploy("push", FALSE)
        \/ \E input \in BOOLEAN : Deploy("workflow_dispatch", input)
        \/ ApplyStep
        \/ Keepalive
        \/ ServeMagic

Spec == Init /\ [][Next]_vars

-----------------------------------------------------------------------------

(* Every variable has its type: a parameter is never the empty one that a  *)
(* deploy without a seed would create.                                     *)
TypeOK == /\ minted \in 0..MaxMint
          /\ live \in [Mint -> 0..MaxGen]
          /\ secret \in Mint \cup {Absent}
          /\ param \in Token \cup {Absent}
          /\ deployed \in [Resource -> BOOLEAN]
          /\ gate \in BOOLEAN
          /\ cached \in Token \cup {Absent}
          /\ apply \in [on : BOOLEAN, todo : SUBSET Resource,
                        seed : Mint \cup {Absent}]
          /\ deploys \in 0..MaxDeploy
          /\ inv \in [at : {"idle", "queued", "get", "refresh", "put"},
                     held : Token \cup {Absent}]
          /\ settled \in {"none", "on", "off"}
          /\ seed \in Mint \cup {Absent}
          /\ kept \in BOOLEAN
          /\ removed \in BOOLEAN

(* "when off, the schedule is DISABLED (the Lambda never fires, SSM is     *)
(* never touched)" (magic-keepalive.tf:5-7): once a deploy with the flag   *)
(* off has completed, not even an event fired or a token rotated before it *)
(* reaches SSM.                                                            *)
OffMeansUntouched == [][settled = "off" => param' = param]_vars

(* "value is ignored on subsequent applies so a deploy never reverts a     *)
(* token the keepalive Lambda has rotated" (lambda.tf:24-26).              *)
DeployNeverReverts ==
    [][param # Absent /\ param' # Absent /\ param.mint = param'.mint
         => param'.gen >= param.gen]_vars

(* "Magic link stays enabled across automatic main deploys" and a dispatch *)
(* that asks for it (deploy-production.yml:22-25), however they interleave *)
(* with the keepalive and wherever they stop.                              *)
StaysEnabled == kept => /\ param # Absent
                        /\ \A x \in Resource : deployed[x]

(* With the secret deleted after a deploy with the flag off, no deploy     *)
(* revives the route (README.md:70-76), though the keepalive may have put  *)
(* the parameter back while it was being destroyed.                        *)
RemovedStaysRemoved == removed => ~Serves

(* "When false the SSM blob is torn down" (variables.tf:102), and "tears   *)
(* down the SSM blob" (README.md:70): once a deploy with the flag off has  *)
(* completed, no blob is left in SSM.                                      *)
TornDown == settled = "off" => param = Absent

(* "To rotate manually ... overwrite the GitHub secret, and re-deploy"     *)
(* (README.md:68): a completed deploy puts the secret's token, or one      *)
(* rotated from it, into SSM.                                              *)
ReseedTakesEffect ==
    settled = "on" /\ param # Absent => param.mint = seed

=============================================================================
