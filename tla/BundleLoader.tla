----------------------------- MODULE BundleLoader -----------------------------
(***************************************************************************)
(* lib/aphid/bundle_loader.ex and lib/aphid/application.ex over an          *)
(* installation: each native module (Aphid.Native, Aphid.Proof) loads its   *)
(* library only after the hash of every library in the closure was compared *)
(* with the hashes compiled into it.  An embedded VM loads the modules      *)
(* before crypto is ready; they are then left as stubs, with a persistent   *)
(* term, and activated when the application starts.                         *)
(***************************************************************************)
EXTENDS BundleInstall

CONSTANTS
  Boots,     \* the virtual machines started over the build
  Modules    \* the native modules; each loads the library of its name

ASSUME ModuleAssumption == Modules \subseteq Libraries

VARIABLES
  boot,      \* a VM: "down", "loading", "starting", "started", "refused"
  embedded,  \* its code mode
  crypto,    \* whether crypto's NIF is loaded
  hashes,    \* the hashes compiled into its modules
  module,    \* a module: "absent", "verifying", "failed", "loaded"
  unverified,\* the libraries a module has still to verify
  deferred,  \* the persistent terms of deferred modules
  library    \* the content of the library a module runs

bootVars == <<boot, embedded, crypto, hashes, module, unverified, deferred, library>>
vars == <<installVars, bootVars>>

LoaderTypeOK ==
  /\ TypeOK
  /\ boot \in [Boots -> {"down", "loading", "starting", "started", "refused"}]
  /\ embedded \in [Boots -> BOOLEAN]
  /\ crypto \in [Boots -> BOOLEAN]
  /\ hashes \in [Boots -> {None, "source"} \cup Natives]
  /\ module \in [Boots -> [Modules -> {"absent", "verifying", "failed", "loaded"}]]
  /\ unverified \in [Boots -> [Modules -> SUBSET Libraries]]
  /\ deferred \in [Boots -> SUBSET Modules]
  /\ library \in [Boots -> [Modules -> Contents \cup {None}]]

LoaderInit ==
  /\ Init
  /\ boot = [v \in Boots |-> "down"]
  /\ embedded = [v \in Boots |-> FALSE]
  /\ crypto = [v \in Boots |-> FALSE]
  /\ hashes = [v \in Boots |-> None]
  /\ module = [v \in Boots |-> [m \in Modules |-> "absent"]]
  /\ unverified = [v \in Boots |-> [m \in Modules |-> {}]]
  /\ deferred = [v \in Boots |-> {}]
  /\ library = [v \in Boots |-> [m \in Modules |-> None]]

\* A VM starts over compiled code; an interactive one loads crypto by itself.
PowerOn(v) ==
  /\ boot[v] = "down"
  /\ compiled # None
  /\ \E mode \in BOOLEAN :
       /\ embedded' = [embedded EXCEPT ![v] = mode]
       /\ crypto' = [crypto EXCEPT ![v] = ~mode]
  /\ boot' = [boot EXCEPT ![v] = "loading"]
  /\ hashes' = [hashes EXCEPT ![v] = compiled]
  /\ UNCHANGED <<module, unverified, deferred, library>>

Running(v) == boot[v] \in {"loading", "starting", "started"}

\* __load_nifs__ of a module: deferred, loaded without hashes, or verified first.
LoadNifs(v, m) ==
  /\ IF hashes[v] # "source" /\ embedded[v] /\ ~crypto[v]
     THEN deferred' = [deferred EXCEPT ![v] = @ \cup {m}] /\ UNCHANGED <<module, unverified>>
     ELSE /\ module' = [module EXCEPT ![v][m] = "verifying"]
          /\ unverified' = [unverified EXCEPT ![v][m] = IF hashes[v] = "source" THEN {} ELSE Libraries]
          /\ UNCHANGED deferred
  /\ UNCHANGED <<boot, embedded, crypto, hashes, library>>

\* The on_load handler, which runs when a module is first used, or again after it failed; an
\* embedded VM runs it once, while it boots.
OnLoad(v, m) ==
  /\ Running(v)
  /\ m \notin deferred[v]
  /\ \/ module[v][m] = "absent" /\ (embedded[v] => boot[v] = "loading")
     \/ module[v][m] = "failed" /\ ~embedded[v]
  /\ LoadNifs(v, m)

\* Fault: a module verifies the library it loads and none of those that library needs.
OwnLibrary(v, m) == IF m \in unverified[v][m] THEN {m} ELSE {}

ToVerify(v, m) == unverified[v][m]

\* verify/2, one library at a time; it stops at the first that differs.
VerifyLibrary(v, m) ==
  /\ module[v][m] = "verifying"
  /\ \E path \in ToVerify(v, m) :
       IF Has(destination, path, <<hashes[v], path>>)
       THEN unverified' = [unverified EXCEPT ![v][m] = @ \ {path}] /\ UNCHANGED module
       ELSE unverified' = [unverified EXCEPT ![v][m] = {}] /\ module' = [module EXCEPT ![v][m] = "failed"]
  /\ UNCHANGED <<boot, embedded, crypto, hashes, deferred, library>>

\* load_nif, which the loader of the system may refuse; activate erases the term.
LoadLibrary(v, m) ==
  /\ module[v][m] = "verifying"
  /\ ToVerify(v, m) = {}
  /\ unverified' = [unverified EXCEPT ![v][m] = {}]
  /\ \/ /\ destination # None /\ m \in DOMAIN destination
        /\ module' = [module EXCEPT ![v][m] = "loaded"]
        /\ library' = [library EXCEPT ![v][m] = destination[m]]
        /\ deferred' = [deferred EXCEPT ![v] = @ \ {m}]
     \/ module' = [module EXCEPT ![v][m] = "failed"] /\ UNCHANGED <<library, deferred>>
  /\ UNCHANGED <<boot, embedded, crypto, hashes>>

\* The embedded boot has run every on_load; crypto starts before this application does.
Booted(v) ==
  /\ boot[v] = "loading"
  /\ embedded[v] => \A m \in Modules : m \in deferred[v] \/ module[v][m] \in {"loaded", "failed"}
  /\ boot' = [boot EXCEPT ![v] = "starting"]
  /\ crypto' = [crypto EXCEPT ![v] = TRUE]
  /\ UNCHANGED <<embedded, hashes, module, unverified, deferred, library>>

\* activate/1 of a deferred module calls its __load_nifs__ again.
Activate(v, m) ==
  /\ boot[v] = "starting"
  /\ m \in deferred[v]
  /\ module[v][m] \in {"absent", "failed"}
  /\ LoadNifs(v, m)

\* Fault: a module that is loaded as stubs counts as active.
StubsAreActive(v, m) == module[v][m] = "loaded" \/ m \in deferred[v]

IsActive(v, m) == module[v][m] = "loaded" /\ m \notin deferred[v]

\* Aphid.Application.start
Start(v) ==
  /\ boot[v] = "starting"
  /\ \/ (\A m \in Modules : IsActive(v, m)) /\ boot' = [boot EXCEPT ![v] = "started"]
     \/ (\E m \in Modules : module[v][m] = "failed") /\ boot' = [boot EXCEPT ![v] = "refused"]
  /\ UNCHANGED <<embedded, crypto, hashes, module, unverified, deferred, library>>

\* The application is stopped, or its start is tried again, in the same VM.
StartAgain(v) ==
  /\ boot[v] \in {"started", "refused"}
  /\ boot' = [boot EXCEPT ![v] = "starting"]
  /\ UNCHANGED <<embedded, crypto, hashes, module, unverified, deferred, library>>

Next ==
  \/ InstallNext /\ UNCHANGED bootVars
  \/ /\ \A v \in Boots, m \in Modules : module[v][m] # "verifying"
     /\ OutsideNext
     /\ UNCHANGED bootVars
  \/ /\ \E v \in Boots :
          \/ PowerOn(v) \/ Booted(v) \/ Start(v) \/ StartAgain(v)
          \/ \E m \in Modules :
               OnLoad(v, m) \/ VerifyLibrary(v, m) \/ LoadLibrary(v, m) \/ Activate(v, m)
     /\ UNCHANGED installVars

Spec == LoaderInit /\ [][Next]_vars

-----------------------------------------------------------------------------
\* A module loads a library only when every library of the closure, its own and the sidecars
\* it is linked to, is the one whose hash was compiled in ("check all four files before every
\* load"), even after installed files were damaged or the receipt was deleted.
LoadsTheClosure ==
  [][\A v \in Boots, m \in Modules :
       (module[v][m] # "loaded" /\ module'[v][m] = "loaded" /\ hashes[v] # "source") =>
          \A path \in Libraries : Has(destination, path, <<hashes[v], path>>)]_vars

\* The application runs only on native modules that are really loaded, whatever was deferred
\* or failed while the VM booted: never on the stubs.
StartedIsLoaded ==
  \A v \in Boots : boot[v] = "started" =>
     \A m \in Modules : library[v][m] = <<hashes[v], m>>
=============================================================================
