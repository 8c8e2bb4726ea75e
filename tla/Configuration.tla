----------------------------- MODULE Configuration -----------------------------
(***************************************************************************)
(* What an issuance is configured with, and who changes it: the DNS         *)
(* integrations (handlers/integrations.rs), the provisioning of a first     *)
(* boot (services/provisioning.rs), the ACME account (register_acme of      *)
(* handlers/settings.rs, build_acme_client of services/renewal.rs), each in *)
(* the database or, by reference, in OpenBao (services/secret_store.rs).    *)
(*                                                                         *)
(* Every handler is a sequence of statements and OpenBao requests with      *)
(* other handlers in between, and the server may stop at any of them.  The  *)
(* credentials of an integration are a version number, 0 for none, that of  *)
(* the n-th block of the provisioning file n; key and URL of an account are *)
(* the number of the registration they come from.                           *)
(***************************************************************************)
EXTENDS Naturals, FiniteSets

CONSTANTS
    Ids,          \* integration ids
    Reqs,         \* requests and issuances that run side by side
    Blocks,       \* integrations of the provisioning file; 0 without one
    MaxVersion,   \* bound on credentials handed in
    MaxAccounts,  \* bound on registrations
    MaxFaults,    \* bound on stops and failures
    NoId

ASSUME ConfigurationAssumption ==
    /\ NoId \notin Ids /\ IsFiniteSet(Ids)
    /\ Blocks \in Nat /\ MaxVersion \in Nat /\ Blocks <= MaxVersion
    /\ MaxAccounts \in Nat /\ MaxFaults \in Nat

VARIABLES
    \* the boot
    stage,        \* "down", "migrating", "provisioning" or "serving"
    external,    \* is OpenBao the backend of this boot
    block,       \* the block of the provisioning file being applied
    making,      \* the integration being provisioned
    \* the database
    integration, \* life, ref (config is a reference), cfg
    sentinel,    \* provisioned_at
    acct,        \* acme_account_key: ref, key
    url,         \* acme_account_url
    \* OpenBao
    bao, baoKey,
    \* the CA
    accounts,    \* accounts registered
    \* the requests
    req,
    \* observation only
    version,     \* credentials handed in so far
    last,        \* the credentials an integration was given last
    overlapped,  \* integrations of which two updates overlapped
    copies,      \* integrations inserted for each block
    badBoots,    \* boots that ended before they served
    crossed,     \* have two registrations overlapped
    cut,         \* was a re-registration interrupted half-way
    outdated,    \* issuances that began before a registration had stored both
    faults

boot == <<stage, external, block, making>>
stored == <<integration, bao>>
account == <<acct, url, baoKey, accounts>>
seen == <<version, last, overlapped>>
seenBoots == <<copies, badBoots>>
seenAccounts == <<crossed, cut, outdated>>
configVars == <<boot, stored, sentinel, account, req, seen, seenBoots, seenAccounts,
                faults>>

Updating == {"update_load", "update_store", "update_row"}
Registering == {"reg_ref", "reg_url"}
ReqPhases == {"idle", "create_store", "create_insert", "delete_row", "delete_secret",
           "issue_key", "use", "reg_ca", "reg_key"} \union Updating \union Registering

\* A registration has replaced the key of an account and not yet its URL.
HalfStored(r) == req[r].pc \in {"reg_ref", "reg_url"} /\ url # 0

Idle == [pc |-> "idle", id |-> NoId, kind |-> "none", cfg |-> 0, ref |-> FALSE, key |-> 0,
         url |-> 0]
NoRow == [life |-> "free", ref |-> FALSE, cfg |-> 0]

Integration == [life : {"free", "live", "gone"}, ref : BOOLEAN, cfg : 0..MaxVersion]
Request == [pc : ReqPhases, id : Ids \union {NoId},
            kind : {"none", "rotate", "masked", "rename"},
            cfg : 0..MaxVersion, ref : BOOLEAN, key : 0..MaxAccounts,
            url : 0..MaxAccounts]

BootTypes ==
    /\ stage \in {"down", "migrating", "provisioning", "serving"}
    /\ external \in BOOLEAN /\ block \in 1..(Blocks + 1)
    /\ making \in Ids \union {NoId}
StoredTypes ==
    /\ integration \in [Ids -> Integration]
    /\ bao \in [Ids -> 0..MaxVersion]
    /\ sentinel \in BOOLEAN
AccountTypes ==
    /\ acct \in [ref : BOOLEAN, key : 0..MaxAccounts]
    /\ url \in 0..MaxAccounts /\ baoKey \in 0..MaxAccounts
    /\ accounts \in 0..MaxAccounts
RequestTypes == req \in [Reqs -> Request]
SeenTypes ==
    /\ version \in 0..MaxVersion /\ last \in [Ids -> 0..MaxVersion]
    /\ overlapped \subseteq Ids
CountTypes ==
    /\ copies \in [1..Blocks -> Nat] /\ badBoots \in Nat
    /\ crossed \in BOOLEAN /\ cut \in BOOLEAN /\ outdated \subseteq Reqs
    /\ faults \in 0..MaxFaults
ConfigTypeOK ==
    BootTypes /\ StoredTypes /\ AccountTypes /\ RequestTypes /\ SeenTypes /\ CountTypes

\* load_integration_config, load_acme_account_key
Credentials(i) == IF integration[i].ref THEN bao[i] ELSE integration[i].cfg
Key == IF acct.ref THEN baoKey ELSE acct.key

ConfigInit ==
    /\ stage = "down" /\ external = FALSE /\ block = 1 /\ making = NoId
    /\ integration = [i \in Ids |-> NoRow]
    /\ bao = [i \in Ids |-> 0]
    /\ sentinel = FALSE
    /\ acct = [ref |-> FALSE, key |-> 0] /\ url = 0 /\ baoKey = 0 /\ accounts = 0
    /\ req = [r \in Reqs |-> Idle]
    /\ version = Blocks
    /\ last = [i \in Ids |-> 0]
    /\ overlapped = {}
    /\ copies = [b \in 1..Blocks |-> 0]
    /\ badBoots = 0
    /\ crossed = FALSE /\ cut = FALSE /\ outdated = {}
    /\ faults = 0

Fault == faults < MaxFaults /\ faults' = faults + 1
Set(r, f) == req' = [req EXCEPT ![r] = f]
Goto(r, p) == Set(r, [req[r] EXCEPT !.pc = p])
At(r, p) == stage = "serving" /\ req[r].pc = p
\* Nothing refers to it; a secret left there by a create that was cut short
\* is as good as absent.
Unused == {i \in Ids : integration[i].life = "free" /\ i # making
                       /\ \A r \in Reqs : req[r].id # i}

--------------------------------------------------------------------------
(* Boot: main, migrate_from_database, apply_if_present *)

\* BAO_ADDR may have been set since the last boot.
Start ==
    /\ stage = "down"
    /\ stage' = "migrating"
    /\ external' \in {external, TRUE}
    /\ block' = 1 /\ making' = NoId
    /\ UNCHANGED <<stored, sentinel, account, req, seen, seenBoots, seenAccounts, faults>>

MigrateKey ==
    /\ stage = "migrating" /\ external
    /\ ~acct.ref /\ acct.key # 0
    /\ IF baoKey = acct.key
       THEN acct' = [ref |-> TRUE, key |-> 0] /\ UNCHANGED baoKey
       ELSE baoKey' = acct.key /\ UNCHANGED acct
    /\ UNCHANGED <<boot, stored, sentinel, url, accounts, req, seen, seenBoots,
                   seenAccounts, faults>>

\* Write, read back, verify, and only then let the row refer to it.
MigrateIntegration(i) ==
    /\ stage = "migrating" /\ external
    /\ integration[i].life = "live" /\ ~integration[i].ref
    /\ IF bao[i] = integration[i].cfg
       THEN /\ integration' = [integration EXCEPT ![i].ref = TRUE, ![i].cfg = 0]
            /\ UNCHANGED bao
       ELSE /\ bao' = [bao EXCEPT ![i] = integration[i].cfg]
            /\ UNCHANGED integration
    /\ UNCHANGED <<boot, sentinel, account, req, seen, seenBoots, seenAccounts, faults>>

Migrated ==
    /\ stage = "migrating"
    /\ external => /\ acct.ref \/ acct.key = 0
                   /\ \A i \in Ids : integration[i].life = "live" => integration[i].ref
    /\ stage' = IF sentinel \/ Blocks = 0 THEN "serving" ELSE "provisioning"
    /\ UNCHANGED <<external, block, making, stored, sentinel, account, req, seen,
                   seenBoots, seenAccounts, faults>>

\* apply_integration: credentials first, then the row.
ProvisionStore ==
    /\ stage = "provisioning" /\ making = NoId /\ block <= Blocks
    /\ \E i \in Unused :
          /\ making' = i
          /\ bao' = IF external THEN [bao EXCEPT ![i] = block] ELSE bao
    /\ UNCHANGED <<stage, external, block, integration, sentinel, account, req, seen,
                   seenBoots,
                   seenAccounts, faults>>

ProvisionInsert ==
    /\ stage = "provisioning" /\ making # NoId
    /\ integration' = [integration EXCEPT ![making] =
                  [life |-> "live", ref |-> external,
                   cfg |-> IF external THEN 0 ELSE block]]
    /\ last' = [last EXCEPT ![making] = block]
    /\ copies' = [copies EXCEPT ![block] = @ + 1]
    /\ block' = block + 1
    /\ making' = NoId
    /\ UNCHANGED <<stage, external, bao, sentinel, account, req, version, overlapped,
                   badBoots, seenAccounts, faults>>

\* Mutant: the sentinel is written as soon as one block is applied.
WriteSentinel_Early ==
    /\ stage = "provisioning" /\ making = NoId /\ block > 1
    /\ sentinel' = TRUE
    /\ stage' = "serving"
    /\ UNCHANGED <<external, block, making, stored, account, req, seen, seenBoots,
                   seenAccounts, faults>>

WriteSentinel ==
    /\ stage = "provisioning" /\ making = NoId /\ block > Blocks
    /\ sentinel' = TRUE
    /\ stage' = "serving"
    /\ UNCHANGED <<external, block, making, stored, account, req, seen, seenBoots,
                   seenAccounts, faults>>

\* The server stops: killed, or a boot that fails (bounded by the ids left for
\* the next one).
ServerStops ==
    /\ stage # "down"
    /\ sentinel \/ Cardinality(Unused) >= Blocks
    /\ Fault
    /\ stage' = "down"
    /\ making' = NoId
    /\ req' = [r \in Reqs |-> Idle]
    /\ badBoots' = IF stage = "serving" THEN badBoots ELSE badBoots + 1
    /\ cut' = (cut \/ \E r \in Reqs : HalfStored(r))
    /\ outdated' = {}
    /\ UNCHANGED <<external, block, stored, sentinel, account, seen, copies, crossed>>

--------------------------------------------------------------------------
(* handlers/integrations.rs *)

\* store_integration_config: nothing to write when the column holds it.
StoreConfig(r) ==
    bao' = IF external THEN [bao EXCEPT ![req[r].id] = req[r].cfg] ELSE bao

CreateBegin(r) ==
    /\ At(r, "idle")
    /\ version < MaxVersion
    /\ version' = version + 1
    /\ \E i \in Unused :
          Set(r, [Idle EXCEPT !.pc = "create_store", !.id = i, !.cfg = version'])
    /\ UNCHANGED <<boot, stored, sentinel, account, last, overlapped, seenBoots,
                   seenAccounts, faults>>

CreateStore(r) ==
    /\ At(r, "create_store")
    /\ StoreConfig(r)
    /\ Goto(r, "create_insert")
    /\ UNCHANGED <<boot, integration, sentinel, account, seen, seenBoots, seenAccounts,
                   faults>>

Column(r) == [life |-> "live", ref |-> external,
              cfg |-> IF external THEN 0 ELSE req[r].cfg]

CreateInsert(r) ==
    /\ At(r, "create_insert")
    /\ integration' = [integration EXCEPT ![req[r].id] = Column(r)]
    /\ last' = [last EXCEPT ![req[r].id] = req[r].cfg]
    /\ Set(r, Idle)
    /\ UNCHANGED <<boot, bao, sentinel, account, version, overlapped, seenBoots,
                   seenAccounts, faults>>

\* An update brings new credentials, masks them ("***": keep what is stored)
\* or has no config at all, as when an integration is enabled or renamed.
UpdateBegin(r) ==
    /\ At(r, "idle")
    /\ \E i \in Ids, kind \in {"rotate", "masked", "rename"} :
          /\ integration[i].life = "live"
          /\ kind = "rotate" => version < MaxVersion
          /\ version' = IF kind = "rotate" THEN version + 1 ELSE version
          /\ Set(r, [Idle EXCEPT !.pc = "update_load", !.id = i, !.kind = kind,
                        !.ref = integration[i].ref,
                        !.cfg = IF kind = "rotate" THEN version' ELSE integration[i].cfg])
          /\ overlapped' = IF \E q \in Reqs : req[q].id = i /\ req[q].pc \in Updating
                           THEN overlapped \union {i} ELSE overlapped
    /\ UNCHANGED <<boot, stored, sentinel, account, last, seenBoots, seenAccounts, faults>>

\* Mutant: without a config in the request, what the row holds is kept.
UpdateLoad_Unmerged(r) ==
    /\ At(r, "update_load")
    /\ LET f == req[r]
           merged == IF f.kind = "masked" /\ f.ref THEN bao[f.id] ELSE f.cfg
       IN Set(r, IF f.kind = "masked" /\ merged = 0 THEN Idle
                 ELSE [f EXCEPT !.pc = "update_store", !.cfg = merged])
    /\ UNCHANGED <<boot, stored, sentinel, account, seen, seenBoots, seenAccounts, faults>>

\* Merge with what is stored; a merged config without credentials is rejected,
\* but only when the request has a config.
UpdateLoad(r) ==
    /\ At(r, "update_load")
    /\ LET f == req[r]
           merged == IF f.kind # "rotate" /\ f.ref THEN bao[f.id] ELSE f.cfg
       IN Set(r, IF f.kind = "masked" /\ merged = 0 THEN Idle
                 ELSE [f EXCEPT !.pc = "update_store", !.cfg = merged])
    /\ UNCHANGED <<boot, stored, sentinel, account, seen, seenBoots, seenAccounts, faults>>

UpdateStore(r) ==
    /\ At(r, "update_store")
    /\ StoreConfig(r)
    /\ last' = IF external /\ integration[req[r].id].ref /\ req[r].kind = "rotate"
               THEN [last EXCEPT ![req[r].id] = req[r].cfg] ELSE last
    /\ Goto(r, "update_row")
    /\ UNCHANGED <<boot, integration, sentinel, account, version, overlapped, seenBoots,
                   seenAccounts, faults>>

\* The UPDATE of a row that has been deleted meanwhile changes nothing.
UpdateIntegration(r) ==
    /\ At(r, "update_row")
    /\ LET i == req[r].id IN
          IF integration[i].life = "live"
          THEN /\ integration' = [integration EXCEPT ![i] = Column(r)]
               /\ last' = IF req[r].kind = "rotate" THEN [last EXCEPT ![i] = req[r].cfg]
                          ELSE last
          ELSE UNCHANGED <<integration, last>>
    /\ Set(r, Idle)
    /\ UNCHANGED <<boot, bao, sentinel, account, version, overlapped, seenBoots,
                   seenAccounts, faults>>

DeleteBegin(r) ==
    /\ At(r, "idle")
    /\ \E i \in Ids :
          /\ integration[i].life = "live"
          /\ Set(r, [Idle EXCEPT !.pc = "delete_row", !.id = i, !.ref = integration[i].ref])
    /\ UNCHANGED <<boot, stored, sentinel, account, seen, seenBoots, seenAccounts, faults>>

DeleteIntegration(r) ==
    /\ At(r, "delete_row")
    /\ integration' = [integration EXCEPT ![req[r].id] = [NoRow EXCEPT !.life = "gone"]]
    /\ last' = [last EXCEPT ![req[r].id] = 0]
    /\ overlapped' = overlapped \ {req[r].id}
    /\ Goto(r, "delete_secret")
    /\ UNCHANGED <<boot, bao, sentinel, account, version, seenBoots, seenAccounts, faults>>

DeleteCredentials(r) ==
    /\ At(r, "delete_secret")
    /\ bao' = IF req[r].ref THEN [bao EXCEPT ![req[r].id] = 0] ELSE bao
    /\ Set(r, Idle)
    /\ UNCHANGED <<boot, integration, sentinel, account, seen, seenBoots, seenAccounts,
                   faults>>

--------------------------------------------------------------------------
(* The ACME account *)

\* An issuance works from the settings as they were read when it, or the
\* scheduler's pass it belongs to, began.
IssueBegin(r) ==
    /\ At(r, "idle")
    /\ Set(r, [Idle EXCEPT !.pc = "issue_key", !.ref = acct.ref, !.key = acct.key,
                           !.url = url])
    /\ outdated' = IF \E q \in Reqs : req[q].pc \in Registering
                   THEN outdated \union {r} ELSE outdated
    /\ UNCHANGED <<boot, stored, sentinel, account, seen, seenBoots, crossed, cut, faults>>

\* build_acme_client: reuse the account if key and URL are there, else register.
IssueKey(r) ==
    /\ At(r, "issue_key")
    /\ LET f == req[r]
           key == IF f.ref THEN baoKey ELSE f.key
       IN Set(r, IF key # 0 /\ f.url # 0 THEN [f EXCEPT !.pc = "use", !.key = key]
                 ELSE [Idle EXCEPT !.pc = "reg_ca"])
    /\ outdated' = IF req'[r].pc = "use" THEN outdated ELSE outdated \ {r}
    /\ UNCHANGED <<boot, stored, sentinel, account, seen, seenBoots, crossed, cut, faults>>

Used(r) ==
    /\ At(r, "use")
    /\ Set(r, Idle)
    /\ outdated' = outdated \ {r}
    /\ UNCHANGED <<boot, stored, sentinel, account, seen, seenBoots, crossed, cut, faults>>

RegisterBegin(r) ==
    /\ At(r, "idle")
    /\ Set(r, [Idle EXCEPT !.pc = "reg_ca"])
    /\ UNCHANGED <<boot, stored, sentinel, account, seen, seenBoots, seenAccounts, faults>>

\* AcmeClient::register: a new key, and an account of its own at the CA.
Register(r) ==
    /\ At(r, "reg_ca")
    /\ accounts < MaxAccounts
    /\ accounts' = accounts + 1
    /\ Set(r, [req[r] EXCEPT !.pc = "reg_key", !.key = accounts'])
    /\ UNCHANGED <<boot, stored, sentinel, acct, url, baoKey, seen, seenBoots,
                   seenAccounts, faults>>

\* store_acme_account_key: into OpenBao first, when it is the backend.
StoreKey(r) ==
    /\ At(r, "reg_key")
    /\ IF external
       THEN baoKey' = req[r].key /\ UNCHANGED acct
       ELSE acct' = [ref |-> FALSE, key |-> req[r].key] /\ UNCHANGED baoKey
    /\ Goto(r, IF external THEN "reg_ref" ELSE "reg_url")
    /\ crossed' = (crossed \/ \E q \in Reqs : req[q].pc \in Registering)
    /\ outdated' = outdated \union {q \in Reqs : req[q].pc = "issue_key"}
    /\ UNCHANGED <<boot, stored, sentinel, url, accounts, seen, seenBoots, cut, faults>>

StoreKeyRef(r) ==
    /\ At(r, "reg_ref")
    /\ acct' = [ref |-> TRUE, key |-> 0]
    /\ Goto(r, "reg_url")
    /\ UNCHANGED <<boot, stored, sentinel, url, baoKey, accounts, seen, seenBoots,
                   seenAccounts, faults>>

\* Mutant: INSERT OR IGNORE instead of the upsert.
StoreUrl_Keeps(r) ==
    /\ At(r, "reg_url")
    /\ url' = IF url = 0 THEN req[r].key ELSE url
    /\ Set(r, Idle)
    /\ UNCHANGED <<boot, stored, sentinel, acct, baoKey, accounts, seen, seenBoots,
                   seenAccounts, faults>>

StoreUrl(r) ==
    /\ At(r, "reg_url")
    /\ url' = req[r].key
    /\ Set(r, Idle)
    /\ UNCHANGED <<boot, stored, sentinel, acct, baoKey, accounts, seen, seenBoots,
                   seenAccounts, faults>>

--------------------------------------------------------------------------
\* A statement or a request to OpenBao or the CA fails, and the handler with it.
Fails(r) ==
    /\ stage = "serving" /\ req[r].pc \notin {"idle", "use"}
    /\ IF req[r].pc = "reg_ca" THEN UNCHANGED faults ELSE Fault
    /\ Set(r, Idle)
    /\ cut' = (cut \/ HalfStored(r))
    /\ outdated' = outdated \ {r}
    /\ UNCHANGED <<boot, stored, sentinel, account, seen, seenBoots, crossed>>

Step(r) ==
    \/ CreateBegin(r) \/ CreateStore(r) \/ CreateInsert(r)
    \/ UpdateBegin(r) \/ UpdateLoad(r) \/ UpdateStore(r) \/ UpdateIntegration(r)
    \/ DeleteBegin(r) \/ DeleteIntegration(r) \/ DeleteCredentials(r)
    \/ IssueBegin(r) \/ IssueKey(r) \/ Used(r)
    \/ RegisterBegin(r) \/ Register(r) \/ StoreKey(r) \/ StoreKeyRef(r) \/ StoreUrl(r)
    \/ Fails(r)

ConfigNext ==
    \/ Start \/ MigrateKey \/ Migrated
    \/ \E i \in Ids : MigrateIntegration(i)
    \/ ProvisionStore \/ ProvisionInsert \/ WriteSentinel \/ ServerStops
    \/ \E r \in Reqs : Step(r)

ConfigSpec == ConfigInit /\ [][ConfigNext]_configVars

--------------------------------------------------------------------------
(* Properties *)

\* An integration has the credentials it was given last, wherever they are and
\* whatever stopped half-way: an update that masks them or leaves them out, or
\* the move to OpenBao, never brings back older ones or loses them - unless
\* two updates of it overlapped.
KeepsCredentials ==
    \A i \in Ids \ overlapped :
        integration[i].life = "live" => Credentials(i) = last[i] /\ last[i] # 0

\* A file that has been applied has been applied in full, every integration of
\* it once, and once more at most for each boot that stopped half-way.
ProvisionedInFull ==
    /\ sentinel => \A b \in 1..Blocks : copies[b] >= 1
    /\ \A b \in 1..Blocks : copies[b] <= badBoots + 1

\* The stored account key and URL are of one account once no registration is
\* under way, and an issuance that reuses them signs with the key of the
\* account it names - unless two registrations crossed, one that replaced an
\* account was cut short, or the issuance read its settings while one was
\* being stored or before that.
AccountIsPaired ==
    ~crossed /\ ~cut =>
        /\ (\A r \in Reqs : req[r].pc \notin Registering) /\ Key # 0 /\ url # 0
              => Key = url
        /\ \A r \in Reqs \ outdated : req[r].pc = "use" => req[r].key = req[r].url
=============================================================================
