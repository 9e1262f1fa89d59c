---------------------------- MODULE BundleInstall ----------------------------
(***************************************************************************)
(* The Mix compiler aphid_bundle (mix/aphid_bundle.exs), which installs a   *)
(* pinned archive of native libraries and notices into the application's    *)
(* priv directory, the destination.  Every installer is an operating-system *)
(* process of its own (a retry after a crash is another one): it checks the *)
(* archive in memory, accepts an existing destination only if it is the     *)
(* same installation undamaged, and otherwise fills a staging directory     *)
(* beside the destination file by file and renames it.                      *)
(*                                                                         *)
(* A directory is a function from the paths of its files to their contents; *)
(* a content is the pair of where it comes from and its path.  External:    *)
(* the file system, the build of the sources, damage to installed files.    *)
(* Not modelled: the loss of written data in a power failure, and the check *)
(* of member names (absolute, colliding or linked), which precedes every    *)
(* write.                                                                   *)
(***************************************************************************)
EXTENDS Naturals, FiniteSets

CONSTANTS
  Installers,   \* the runs of the Mix compiler, in any order and overlapping
  Bundles,      \* the archives
  Natives,      \* the reviewed sets of native libraries
  Libraries,    \* the native files of every bundle
  Notices,      \* the licence files some bundle has
  NativeOf,     \* the set of native libraries in a bundle
  NoticesOf,    \* the licence files of a bundle
  Numbers,      \* what System.unique_integer returns, in every VM anew
  MaxDamages,   \* how often an installed file is damaged
  None

ASSUME BundleAssumption ==
  /\ NativeOf \in [Bundles -> Natives]
  /\ NoticesOf \in [Bundles -> SUBSET Notices]
  /\ MaxDamages \in Nat

VARIABLES
  destination,  \* the priv directory: None or a directory
  staging,      \* destination.aphid-<number>: None or a directory
  installer,    \* where an installer is
  wanted,       \* the bundle an installer has verified
  number,       \* the number of its staging directory
  remaining,    \* the files it has still to compare or to write
  compiled,     \* the hashes in the compiled loaders: None, "source" or a set of Natives
  damages       \* how often a file was damaged

installVars == <<destination, staging, installer, wanted, number, remaining, compiled, damages>>

Receipt == "aphid-bundle.json"
Paths   == Libraries \cup Notices \cup {Receipt}

\* What the installer writes for a path of a bundle.
Content(bundle, path) == <<IF path \in Libraries THEN NativeOf[bundle] ELSE bundle, path>>
FilesOf(bundle) == Libraries \cup NoticesOf[bundle]
Installation(bundle) == [path \in FilesOf(bundle) \cup {Receipt} |-> Content(bundle, path)]

Partial(path) == <<"partial", path>>
Damaged(path) == <<"damaged", path>>
SourceBuild   == [path \in Libraries |-> <<"source", path>>]
DevelopmentPriv == [path \in {} |-> None]

Has(directory, path, content) ==
  /\ directory # None
  /\ path \in DOMAIN directory
  /\ directory[path] = content

HasReceipt(directory) == directory # None /\ Receipt \in DOMAIN directory

Contents == (Natives \cup Bundles \cup {"source", "partial", "damaged"}) \X Paths
IsDirectory(value) == \E files \in SUBSET Paths : value \in [files -> Contents]

\* The libraries are below lib/ and the notices below licenses/, the receipt beside them; and a
\* directory that does not exist is not an empty one.
ASSUME NamesAssumption ==
  /\ Receipt \notin Libraries
  /\ "source" \notin Natives /\ None # "source"
  /\ ~IsDirectory(None)

-----------------------------------------------------------------------------
TypeOK ==
  /\ destination # None => IsDirectory(destination)
  /\ DOMAIN staging = Numbers
  /\ \A n \in Numbers : staging[n] # None => IsDirectory(staging[n])
  /\ installer \in [Installers -> {"idle", "verified", "comparing", "staging", "writing",
                                   "installed", "compiled", "rejected", "raised", "dead"}]
  /\ wanted \in [Installers -> Bundles \cup {None}]
  /\ number \in [Installers -> Numbers \cup {None}]
  /\ remaining \in [Installers -> SUBSET Paths]
  /\ compiled \in {None, "source"} \cup Natives
  /\ damages \in 0..MaxDamages

Init ==
  /\ destination \in {None, DevelopmentPriv}
  /\ staging = [n \in Numbers |-> None]
  /\ installer = [i \in Installers |-> "idle"]
  /\ wanted = [i \in Installers |-> None]
  /\ number = [i \in Installers |-> None]
  /\ remaining = [i \in Installers |-> {}]
  /\ compiled = None
  /\ damages = 0

Goes(i, state) == installer' = [installer EXCEPT ![i] = state]

-----------------------------------------------------------------------------
(* Everything install_bytes checks before it looks at the destination: the  *)
(* archive has the caller's digest and its native files are those reviewed  *)
(* for this source package.                                                 *)
Acceptable(archive, digest, package) ==
  /\ archive = digest
  /\ NativeOf[archive] = package

Verify(i) ==
  /\ installer[i] = "idle"
  /\ \E archive, digest \in Bundles, package \in Natives :
       IF Acceptable(archive, digest, package)
       THEN Goes(i, "verified") /\ wanted' = [wanted EXCEPT ![i] = digest]
       ELSE Goes(i, "rejected") /\ UNCHANGED wanted
  /\ UNCHANGED <<destination, staging, number, remaining, compiled, damages>>

SameReceipt(i) == Has(destination, Receipt, Content(wanted[i], Receipt))

\* A destination that exists is used only if it carries the same receipt.
FindExisting(i) ==
  /\ installer[i] = "verified"
  /\ destination # None
  /\ IF SameReceipt(i)
     THEN Goes(i, "comparing") /\ remaining' = [remaining EXCEPT ![i] = FilesOf(wanted[i])]
     ELSE Goes(i, "rejected") /\ UNCHANGED remaining
  /\ UNCHANGED <<destination, staging, wanted, number, compiled, damages>>

\* Fault: an installed file is only looked for.
IsPresent(i, path) == path \in DOMAIN destination

IsIntact(i, path) == Has(destination, path, Content(wanted[i], path))

\* Each installed file is read and its hash compared.
Compare(i) ==
  /\ installer[i] = "comparing"
  /\ \E path \in remaining[i] :
       /\ remaining' = [remaining EXCEPT ![i] = IF IsIntact(i, path) THEN @ \ {path} ELSE {}]
       /\ IF ~IsIntact(i, path) THEN Goes(i, "rejected")
          ELSE IF remaining[i] = {path} THEN Goes(i, "installed")
          ELSE UNCHANGED installer
  /\ UNCHANGED <<destination, staging, wanted, number, compiled, damages>>

FindNothing(i) ==
  /\ installer[i] = "verified"
  /\ destination = None
  /\ Goes(i, "staging")
  /\ UNCHANGED <<destination, staging, wanted, number, remaining, compiled, damages>>

\* Fault: the staging directory of a crashed installer is filled (File.mkdir_p!).
IsAbandoned(n) == \A i \in Installers : number[i] = n => installer[i] \in {"dead", "installed", "compiled"}

IsFresh(n) == staging[n] = None

\* File.mkdir!(staging) raises when a crashed or a concurrent installer drew the same number.
MakeStaging(i) ==
  /\ installer[i] = "staging"
  /\ \E n \in Numbers :
       IF IsFresh(n)
       THEN /\ staging' = [staging EXCEPT ![n] = IF @ = None THEN [path \in {} |-> None] ELSE @]
            /\ number' = [number EXCEPT ![i] = n]
            /\ remaining' = [remaining EXCEPT ![i] = FilesOf(wanted[i]) \cup {Receipt}]
            /\ Goes(i, "writing")
       ELSE Goes(i, "raised") /\ UNCHANGED <<staging, number, remaining>>
  /\ UNCHANGED <<destination, wanted, compiled, damages>>

\* The libraries are written first, then the notices, and the receipt last.
Writable(i) ==
  LET libraries == remaining[i] \cap Libraries
      notices   == remaining[i] \cap Notices
  IN  IF libraries # {} THEN libraries ELSE IF notices # {} THEN notices ELSE remaining[i]

\* File.write!: the file exists before it is complete.
Write(i) ==
  /\ installer[i] = "writing"
  /\ \E path \in Writable(i) :
       LET n == number[i]
           complete == Has(staging[n], path, Partial(path))
           content == IF complete THEN Content(wanted[i], path) ELSE Partial(path)
       IN  /\ \A other \in Writable(i) : Has(staging[n], other, Partial(other)) => complete
           /\ staging' = [staging EXCEPT ![n] =
                [p \in DOMAIN @ \cup {path} |-> IF p = path THEN content ELSE @[p]]]
           /\ remaining' = [remaining EXCEPT ![i] = IF complete THEN @ \ {path} ELSE @]
  /\ UNCHANGED <<destination, installer, wanted, number, compiled, damages>>

IsStaged(i) == remaining[i] = {}

\* Fault: the rename replaces what another installer has renamed first.
MayReplace == TRUE

MayRename == destination = None

\* File.rename!: fails when the destination exists by now.
Rename(i) ==
  /\ installer[i] = "writing"
  /\ IsStaged(i)
  /\ IF MayRename
     THEN /\ destination' = staging[number[i]]
          /\ staging' = [staging EXCEPT ![number[i]] = None]
          /\ Goes(i, "installed")
     ELSE Goes(i, "raised") /\ UNCHANGED <<destination, staging>>
  /\ UNCHANGED <<wanted, number, remaining, compiled, damages>>

-----------------------------------------------------------------------------
\* Aphid.BundleLoader.__before_compile__ reads the hashes from the receipt; it raises when the
\* receipt is gone or no longer JSON.
Compile(i) ==
  /\ installer[i] = "installed"
  /\ IF SameReceipt(i)
     THEN Goes(i, "compiled") /\ compiled' = NativeOf[wanted[i]]
     ELSE Goes(i, "raised") /\ UNCHANGED compiled
  /\ UNCHANGED <<destination, staging, wanted, number, remaining, damages>>

\* source/0: refused over a bundle; the build itself is Zigler's.
Source(i) ==
  /\ installer[i] = "idle"
  /\ IF HasReceipt(destination)
     THEN Goes(i, "rejected") /\ UNCHANGED <<destination, compiled>>
     ELSE Goes(i, "compiled") /\ destination' = SourceBuild /\ compiled' = "source"
  /\ UNCHANGED <<staging, wanted, number, remaining, damages>>

Crash(i) ==
  /\ installer[i] \in {"verified", "comparing", "staging", "writing", "installed"}
  /\ Goes(i, "dead")
  /\ UNCHANGED <<destination, staging, wanted, number, remaining, compiled, damages>>

\* A file of an installation is lost or overwritten.
Damage ==
  /\ damages < MaxDamages
  /\ HasReceipt(destination)
  /\ \E path \in DOMAIN destination :
       \/ destination' = [p \in DOMAIN destination \ {path} |-> destination[p]]
       \/ destination' = [destination EXCEPT ![path] = Damaged(path)]
  /\ damages' = damages + 1
  /\ UNCHANGED <<staging, installer, wanted, number, remaining, compiled>>

\* What only happens while nobody reads the destination: a concurrent writer is outside the
\* contract of docs/local-installation.md.
OutsideNext ==
  /\ \A i \in Installers : installer[i] # "comparing"
  /\ Damage \/ \E i \in Installers : Source(i)

InstallNext ==
  \/ \E i \in Installers :
       \/ Verify(i) \/ FindExisting(i) \/ Compare(i) \/ FindNothing(i)
       \/ MakeStaging(i) \/ Write(i) \/ Rename(i)
       \/ Compile(i) \/ Crash(i)

-----------------------------------------------------------------------------
\* A destination that carries a receipt is exactly the installation of one bundle, however the
\* installers interleave and crash: no partial file, no file of another bundle, no leftover of
\* a crashed one (install_bytes, staging and rename).
DestinationIsWhole ==
  (damages = 0 /\ HasReceipt(destination)) =>
     \E bundle \in Bundles : destination = Installation(bundle)

\* Once a bundle is installed no installer changes it, whichever bundle it wants ("Never
\* overwrite an unrelated/native development priv"); and an installer succeeds only if at that
\* moment the destination holds, file for file, the bundle that its caller pinned.
InstallsOnce ==
  [][/\ HasReceipt(destination) /\ damages' = damages => destination' = destination
     /\ \A i \in Installers : installer[i] # "installed" /\ installer'[i] = "installed" =>
          \A path \in FilesOf(wanted[i]) \cup {Receipt} :
             Has(destination', path, Content(wanted[i], path))]_installVars
=============================================================================
