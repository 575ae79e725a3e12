------------------------------- MODULE Settings -------------------------------
(***************************************************************************)
(* The settings store (agent_runtime/settings.py) and the configuration it *)
(* keeps for the loaders of agent_runtime/config.py.                       *)
(*                                                                         *)
(* A save checks the revision its client has seen, reads                   *)
(* provider_config.json, edits and validates the document, writes .env,    *)
(* writes the document and answers with a snapshot.  A store holds its     *)
(* lock over all of it, so saves of one store are serial; two processes    *)
(* have two stores over the same files.  A process can die between any two *)
(* steps.  An entry is reduced to the .env name of its key, "" for none;   *)
(* a route "" inherits.                                                    *)
(***************************************************************************)
EXTENDS Naturals, FiniteSets, TLC

CONSTANTS
    SetClients,    \* the pages and front ends that save settings
    SetStore,      \* SetStore[c]: the store that serves client c
    SetDefault,    \* the provider of the shipped configuration
    SetAdded,      \* the providers a user may add
    SetEnvName,    \* SetEnvName[p]: the .env name of provider p's key
    SetInherited,  \* the .env names the processes' own environment defines
    SetMaxSaves    \* bound on the saves begun

ASSUME SetAssumption ==
    /\ SetStore \in [SetClients -> {SetStore[c] : c \in SetClients}]
    /\ SetDefault \notin SetAdded
    \* Ids that differ only in punctuation or case would share a name.
    /\ \A p, q \in SetAdded \cup {SetDefault} :
          SetEnvName[p] = SetEnvName[q] => p = q
    /\ SetMaxSaves \in Nat

VARIABLES
    setDoc,      \* provider_config.json: entries, main, sub, role, fast
    setAgent,    \* agent_config.json, as the saves it holds
    setEnv,      \* the names .env defines
    setEnviron,  \* the names the processes see: .env over their own
    setAt,       \* setAt[c]: what client c is doing
    setSaves,    \* the saves begun
    setAcked,    \* the added providers whose save was answered
    setTorn      \* the names of keys a dying process had dropped from .env only

setVars == <<setDoc, setAgent, setEnv, setEnviron, setAt, setSaves, setAcked, setTorn>>

SetProviders == SetAdded \cup {SetDefault}

SetStores == {SetStore[c] : c \in SetClients}

SetRevision == <<setDoc, setAgent, setEnv>>

(***************************************************************************)
(* Resolution                                                              *)
(***************************************************************************)

\* The first route of a chain that does not inherit.
SetFirst(routes, last) ==
    IF \E i \in DOMAIN routes : routes[i] # ""
    THEN routes[CHOOSE i \in DOMAIN routes :
                   routes[i] # "" /\ \A j \in 1 .. i - 1 : routes[j] = ""]
    ELSE last

\* The provider the main agent, a role with and a role without a block of its
\* own, and the fast model load.
SetResolved(doc) ==
    {doc.main,
     SetFirst(<<doc.role, doc.sub>>, doc.main),
     SetFirst(<<doc.sub>>, doc.main),
     SetFirst(<<doc.fast>>, doc.main)}

\* The loader accepts provider p: it is configured, and the key it refers to is
\* in the environment.
SetLoads(doc, environ, p) ==
    /\ p \in DOMAIN doc.entries
    /\ doc.entries[p] = "" \/ doc.entries[p] \in environ

(***************************************************************************)
(* The edits                                                               *)
(***************************************************************************)

\* A save is about one provider's entry, the routes or agent_config.json.
SetEdits ==
    [kind : {"provider"}, provider : SetProviders,
     key : {"keep", "set", "clear"}, default : BOOLEAN]
    \cup
    [kind : {"routing"}, main : SetProviders, sub : SetProviders \cup {""},
     role : SetProviders \cup {""}, fast : SetProviders \cup {""}]
    \cup
    [kind : {"agent"}]

SetOldKey(doc, p) == IF p \in DOMAIN doc.entries THEN doc.entries[p] ELSE ""

\* The key reference an edit leaves: a set keeps the name the entry had.
SetNewKey(doc, e) ==
    LET old == SetOldKey(doc, e.provider)
    IN  CASE e.key = "keep" -> old
          [] e.key = "clear" -> ""
          [] e.key = "set" -> IF old # "" THEN old ELSE SetEnvName[e.provider]

SetEntry(doc, e) ==
    [doc EXCEPT !.entries = (e.provider :> SetNewKey(doc, e)) @@ @,
                !.main = IF e.default THEN e.provider ELSE @]

SetRoutes(doc, e) ==
    [doc EXCEPT !.main = e.main, !.sub = e.sub, !.role = e.role, !.fast = e.fast]

SetEdited(doc, e) ==
    CASE e.kind = "agent" -> doc
      [] e.kind = "provider" -> SetEntry(doc, e)
      [] e.kind = "routing" -> SetRoutes(doc, e)

SetAgentAfter(e) == IF e.kind = "agent" THEN setAgent + 1 ELSE setAgent

\* Mutant: only the main route is looked at.
SetValidLoose(doc) == doc.main \in DOMAIN doc.entries

\* _validate_provider_document: every route names an entry.
SetValid(doc) ==
    /\ doc.main \in DOMAIN doc.entries
    /\ {doc.sub, doc.role, doc.fast} \subseteq DOMAIN doc.entries \cup {""}

\* What a save does to .env.
SetEnvAfter(doc, e, env) ==
    CASE e.kind # "provider" -> env
      [] e.kind = "provider" /\ e.key = "keep" -> env
      [] e.kind = "provider" /\ e.key = "set" -> env \cup {SetNewKey(doc, e)}
      [] e.kind = "provider" /\ e.key = "clear" -> env \ {SetOldKey(doc, e.provider)}

\* reload: .env over what the process inherited; deleted names do not linger.
SetReloaded == setEnv \cup SetInherited

(***************************************************************************)
(* Saving                                                                  *)
(***************************************************************************)

SetIdle == [step |-> "idle"]

\* A client that has shown a snapshot sends a save with that revision.
SetRequest(c, e) ==
    /\ setAt[c] = SetIdle
    /\ setSaves < SetMaxSaves
    /\ setAt' = [setAt EXCEPT ![c] = [step |-> "waiting", edit |-> e,
                                      seen |-> SetRevision]]
    /\ setSaves' = setSaves + 1
    /\ UNCHANGED <<setDoc, setAgent, setEnv, setEnviron, setAcked, setTorn>>

SetHolds(c) == setAt[c].step \in {"checked", "ready", "env"}

SetFree(s) == \A c \in SetClients : SetStore[c] = s => ~SetHolds(c)

\* Mutant: the store's lock is not taken.
SetCheckUnlocked(c) ==
    /\ setAt[c].step = "waiting"
    /\ setAt' = [setAt EXCEPT ![c] =
                    IF @.seen = SetRevision
                    THEN [step |-> "checked", edit |-> @.edit] ELSE SetIdle]
    /\ UNCHANGED <<setDoc, setAgent, setEnv, setEnviron, setSaves, setAcked, setTorn>>

\* The store's lock is taken and the revision compared; a stale one is refused.
SetCheck(c) ==
    /\ setAt[c].step = "waiting"
    /\ SetFree(SetStore[c])
    /\ setAt' = [setAt EXCEPT ![c] =
                    IF @.seen = SetRevision
                    THEN [step |-> "checked", edit |-> @.edit] ELSE SetIdle]
    /\ UNCHANGED <<setDoc, setAgent, setEnv, setEnviron, setSaves, setAcked, setTorn>>

\* The document is read, edited and validated; an invalid one raises.
SetPrepare(c) ==
    /\ setAt[c].step = "checked"
    /\ LET doc == SetEdited(setDoc, setAt[c].edit)
       IN  setAt' = [setAt EXCEPT ![c] =
                        IF SetValid(doc)
                        THEN [step |-> "ready", edit |-> @.edit,
                              old |-> setDoc, doc |-> doc]
                        ELSE SetIdle]
    /\ UNCHANGED <<setDoc, setAgent, setEnv, setEnviron, setSaves, setAcked, setTorn>>

\* .env is written first.
SetWriteEnv(c) ==
    /\ setAt[c].step = "ready"
    /\ setEnv' = SetEnvAfter(setAt[c].old, setAt[c].edit, setEnv)
    /\ setTorn' = setTorn \ setEnv'
    /\ setAt' = [setAt EXCEPT ![c].step = "env"]
    /\ UNCHANGED <<setDoc, setAgent, setEnviron, setSaves, setAcked>>

\* The document is replaced, the environment reloaded and the save answered.
SetWriteDoc(c) ==
    /\ setAt[c].step = "env"
    /\ setAgent' = SetAgentAfter(setAt[c].edit)
    /\ setDoc' = IF setAt[c].edit.kind = "agent" THEN setDoc ELSE setAt[c].doc
    /\ setEnviron' = SetReloaded
    /\ setAcked' = setAcked \cup (DOMAIN setAt[c].doc.entries \ DOMAIN setAt[c].old.entries)
    /\ setAt' = [setAt EXCEPT ![c] = SetIdle]
    /\ UNCHANGED <<setEnv, setSaves, setTorn>>

\* The process of a store dies.  Its clients start over, and the next process
\* reads .env afresh.
SetCrash(s) ==
    /\ \E c \in SetClients : SetStore[c] = s /\ setAt[c] # SetIdle
    /\ setAt' = [c \in SetClients |-> IF SetStore[c] = s THEN SetIdle ELSE setAt[c]]
    /\ setEnviron' = SetReloaded
    /\ setTorn' = setTorn \cup
          {setAt[c].old.entries[setAt[c].edit.provider] :
              c \in {d \in SetClients : /\ SetStore[d] = s
                                        /\ setAt[d].step = "env"
                                        /\ setAt[d].edit.kind = "provider"
                                        /\ setAt[d].edit.key = "clear"
                                        /\ SetOldKey(setAt[d].old, setAt[d].edit.provider) # ""}}
    /\ UNCHANGED <<setDoc, setAgent, setEnv, setSaves, setAcked>>

SetInit ==
    /\ setDoc = [entries |-> SetDefault :> SetEnvName[SetDefault],
                 main |-> SetDefault, sub |-> "", role |-> "", fast |-> ""]
    /\ setAgent = 0
    /\ setEnv = {SetEnvName[SetDefault]}
    /\ setEnviron = {SetEnvName[SetDefault]} \cup SetInherited
    /\ setAt = [c \in SetClients |-> SetIdle]
    /\ setSaves = 0
    /\ setAcked = {}
    /\ setTorn = {}

SetNext ==
    \/ \E c \in SetClients :
          \/ \E e \in SetEdits : SetRequest(c, e)
          \/ SetCheck(c)
          \/ SetPrepare(c)
          \/ SetWriteEnv(c)
          \/ SetWriteDoc(c)
    \/ \E s \in SetStores : SetCrash(s)

SetSpec == SetInit /\ [][SetNext]_setVars

(***************************************************************************)
(* Properties                                                              *)
(***************************************************************************)

\* A provider whose save was answered stays configured: no save built on an
\* older document overwrites it (save_provider, save_routing: the revision is
\* compared and the document read and written under the store's lock).
SetKeepsSaved == setAcked \subseteq DOMAIN setDoc.entries

\* Between saves every agent, role and fast-model route loads: it names a
\* configured provider whose key is in the environment (what _validate_routes
\* accepts is what _resolve_field finds, and .env is written before the
\* document that refers to it).  The exception is a key whose clearing a dying
\* process left half done.
SetConfigurationLoads ==
    (\A c \in SetClients : ~SetHolds(c)) =>
        \A p \in SetResolved(setDoc) :
            \/ SetLoads(setDoc, setEnviron, p)
            \/ p \in DOMAIN setDoc.entries /\ setDoc.entries[p] \in setTorn

\* The settings are sound: an answered save is kept, and what is saved loads
\* (settings.py, the two above).
SetSound == SetKeepsSaved /\ SetConfigurationLoads
=============================================================================
