---------------------------- MODULE BundleProofs ----------------------------
(***************************************************************************)
(* The installer and the loader for every number of installers, bundles,   *)
(* staging numbers, virtual machines and native modules: a destination     *)
(* with a receipt is the installation of one bundle, no installer changes  *)
(* it, and a module loads and an application starts only over libraries    *)
(* that were verified.                                                     *)
(***************************************************************************)
EXTENDS BundleLoader, TLAPS

-----------------------------------------------------------------------------
(***************************************************************************)
(* The inductive invariant.                                                *)
(***************************************************************************)

Staged(i) == staging[number[i]]

Installed(i) == FilesOf(wanted[i]) \cup {Receipt}

\* An installer that got past the checks wants a bundle.
WantedInv ==
  \A i \in Installers :
     installer[i] \in {"verified", "comparing", "staging", "writing", "installed"} =>
        wanted[i] \in Bundles

\* A staging directory holds files of its bundle only, and those that are no longer to be
\* written are complete.
StagingInv ==
  \A i \in Installers : installer[i] = "writing" =>
     /\ number[i] \in Numbers
     /\ IsDirectory(Staged(i))
     /\ remaining[i] \subseteq Installed(i)
     /\ DOMAIN Staged(i) \subseteq Installed(i)
     /\ \A path \in Installed(i) \ remaining[i] : Has(Staged(i), path, Content(wanted[i], path))

\* No two installers fill the same staging directory.
OwnersInv ==
  \A i, j \in Installers :
     installer[i] = "writing" /\ installer[j] = "writing" /\ number[i] = number[j] => i = j

\* What an installer has compared stays intact while it compares the rest.
CompareInv ==
  \A i \in Installers : installer[i] = "comparing" =>
     /\ destination # None
     /\ \A path \in Installed(i) \ remaining[i] :
           Has(destination, path, Content(wanted[i], path))

\* Loaders without hashes stand over a build of the sources, which no installer replaces.
SourceInv ==
  (compiled = "source" \/ \E v \in Boots : hashes[v] = "source") => destination = SourceBuild

InstallInv == WantedInv /\ StagingInv /\ OwnersInv /\ CompareInv /\ DestinationIsWhole /\ SourceInv

\* What a module has verified stays intact until it loads its library.
VerifyInv ==
  \A v \in Boots, m \in Modules : module[v][m] = "verifying" /\ hashes[v] # "source" =>
     \A path \in Libraries \ unverified[v][m] : Has(destination, path, <<hashes[v], path>>)

\* A machine runs the library whose hash is compiled into its module, and the application
\* started over modules that are loaded.
LoadedInv ==
  \A v \in Boots, m \in Modules :
     /\ boot[v] = "down" => module[v][m] = "absent"
     /\ module[v][m] = "loaded" => library[v][m] = <<hashes[v], m>>
     /\ boot[v] = "started" => module[v][m] = "loaded"

Invariant == InstallInv /\ VerifyInv /\ LoadedInv

-----------------------------------------------------------------------------
(***************************************************************************)
(* Directories.                                                            *)
(***************************************************************************)

\* The directories the model names are directories.
LEMMA DirectoriesAre ==
  /\ IsDirectory(DevelopmentPriv)
  /\ IsDirectory([path \in {} |-> None])
  /\ IsDirectory(SourceBuild)
  /\ \A value : IsDirectory(value) => value # None
<1>1. \A value : value \in [{} -> Contents] => IsDirectory(value)
  BY DEF IsDirectory
<1>2. IsDirectory([path \in {} |-> None])
  <2>1. [path \in {} |-> None] \in [{} -> Contents]
    OBVIOUS
  <2> QED
    BY <1>1, <2>1
<1>3. IsDirectory(SourceBuild)
  <2>1. Libraries \in SUBSET Paths
    BY DEF Paths
  <2>2. SourceBuild \in [Libraries -> Contents]
    BY DEF SourceBuild, Contents, Paths
  <2> QED
    BY <2>1, <2>2 DEF IsDirectory
<1>4. \A value : IsDirectory(value) => value # None
  BY NamesAssumption
<1> QED
  BY <1>2, <1>3, <1>4 DEF DevelopmentPriv

\* A directory is a function from paths to contents.
LEMMA DirectoryIsFunction ==
  ASSUME NEW value, IsDirectory(value)
  PROVE  /\ DOMAIN value \subseteq Paths
         /\ value = [path \in DOMAIN value |-> value[path]]
         /\ \A path \in DOMAIN value : value[path] \in Contents
BY DEF IsDirectory

\* A function from paths to contents is a directory.
LEMMA FunctionIsDirectory ==
  ASSUME NEW files \in SUBSET Paths, NEW value \in [files -> Contents]
  PROVE  IsDirectory(value)
BY DEF IsDirectory

\* The files of a bundle have contents.
LEMMA BundleFiles ==
  ASSUME NEW bundle \in Bundles
  PROVE  /\ FilesOf(bundle) \cup {Receipt} \subseteq Paths
         /\ \A path \in Paths : Content(bundle, path) \in Contents
         /\ NativeOf[bundle] \in Natives
<1>1. NativeOf[bundle] \in Natives /\ NoticesOf[bundle] \subseteq Notices
  BY BundleAssumption
<1> QED
  BY <1>1 DEF FilesOf, Paths, Content, Contents

\* A directory with exactly the files of a bundle, all of them complete, is its installation.
LEMMA CompleteIsInstallation ==
  ASSUME NEW bundle \in Bundles, NEW value, IsDirectory(value),
         DOMAIN value \subseteq FilesOf(bundle) \cup {Receipt},
         \A path \in FilesOf(bundle) \cup {Receipt} : Has(value, path, Content(bundle, path))
  PROVE  value = Installation(bundle)
<1>1. value = [path \in DOMAIN value |-> value[path]]
  BY DirectoryIsFunction
<1>2. DOMAIN value = FilesOf(bundle) \cup {Receipt}
  BY DEF Has
<1>3. \A path \in FilesOf(bundle) \cup {Receipt} : value[path] = Content(bundle, path)
  BY DEF Has
<1> QED
  BY <1>1, <1>2, <1>3 DEF Installation

\* Writing a file keeps a directory a directory, with the other files as they were.
LEMMA WriteKeepsDirectory ==
  ASSUME NEW value, IsDirectory(value), NEW path \in Paths, NEW content \in Contents,
         NEW after,
         after = [p \in DOMAIN value \cup {path} |-> IF p = path THEN content ELSE value[p]]
  PROVE  /\ IsDirectory(after)
         /\ DOMAIN after = DOMAIN value \cup {path}
         /\ Has(after, path, content)
         /\ \A p, c : p # path /\ Has(value, p, c) => Has(after, p, c)
<1>1. IsDirectory(after)
  <2>1. DOMAIN value \cup {path} \in SUBSET Paths
    BY DirectoryIsFunction
  <2>2. after \in [DOMAIN value \cup {path} -> Contents]
    BY DirectoryIsFunction
  <2> QED
    BY <2>1, <2>2, FunctionIsDirectory
<1>2. after # None
  BY <1>1, DirectoriesAre
<1> QED
  BY <1>1, <1>2 DEF Has

-----------------------------------------------------------------------------
(***************************************************************************)
(* The steps of an installer.                                              *)
(***************************************************************************)

\* Checking an archive.
LEMMA VerifyKeeps ==
  ASSUME TypeOK, InstallInv, NEW i \in Installers, Verify(i), UNCHANGED hashes
  PROVE  TypeOK' /\ InstallInv'
<1> USE DEF Goes
<1>0. WantedInv /\ StagingInv /\ OwnersInv /\ CompareInv /\ DestinationIsWhole /\ SourceInv
  BY DEF InstallInv
<1>1. TypeOK'
  BY <1>0 DEF Verify, TypeOK
<1>2. WantedInv'
  BY <1>0 DEF Verify, WantedInv, TypeOK
<1>3. StagingInv'
  BY <1>0 DEF Verify, StagingInv, Staged, Installed, TypeOK
<1>4. OwnersInv'
  BY <1>0 DEF Verify, OwnersInv, TypeOK
<1>5. CompareInv'
  BY <1>0 DEF Verify, CompareInv, Installed, TypeOK
<1>6. DestinationIsWhole'
  BY <1>0 DEF Verify, DestinationIsWhole
<1>7. SourceInv'
  BY <1>0 DEF Verify, SourceInv
<1> QED
  BY <1>1, <1>2, <1>3, <1>4, <1>5, <1>6, <1>7 DEF InstallInv

\* Finding a destination.
LEMMA FindExistingKeeps ==
  ASSUME TypeOK, InstallInv, NEW i \in Installers, FindExisting(i), UNCHANGED hashes
  PROVE  TypeOK' /\ InstallInv'
<1> USE DEF Goes
<1>0. WantedInv /\ StagingInv /\ OwnersInv /\ CompareInv /\ DestinationIsWhole /\ SourceInv
  BY DEF InstallInv
<1>a. ASSUME installer[i] = "verified" PROVE FilesOf(wanted[i]) \subseteq Paths
  BY <1>0, <1>a, BundleFiles DEF WantedInv
<1>1. TypeOK'
  BY <1>0, <1>a DEF FindExisting, TypeOK
<1>2. WantedInv'
  BY <1>0 DEF FindExisting, WantedInv, TypeOK
<1>3. StagingInv'
  BY <1>0 DEF FindExisting, StagingInv, Staged, Installed, TypeOK
<1>4. OwnersInv'
  BY <1>0 DEF FindExisting, OwnersInv, TypeOK
<1>5. CompareInv'
  BY <1>0 DEF FindExisting, CompareInv, Installed, TypeOK, SameReceipt
<1>6. DestinationIsWhole'
  BY <1>0 DEF FindExisting, DestinationIsWhole
<1>7. SourceInv'
  BY <1>0 DEF FindExisting, SourceInv
<1> QED
  BY <1>1, <1>2, <1>3, <1>4, <1>5, <1>6, <1>7 DEF InstallInv

\* Comparing an installed file.
LEMMA CompareKeeps ==
  ASSUME TypeOK, InstallInv, NEW i \in Installers, Compare(i), UNCHANGED hashes
  PROVE  TypeOK' /\ InstallInv'
<1> USE DEF Goes
<1>0. WantedInv /\ StagingInv /\ OwnersInv /\ CompareInv /\ DestinationIsWhole /\ SourceInv
  BY DEF InstallInv
<1>1. TypeOK'
  BY <1>0 DEF Compare, TypeOK
<1>2. WantedInv'
  BY <1>0 DEF Compare, WantedInv, TypeOK
<1>3. StagingInv'
  BY <1>0 DEF Compare, StagingInv, Staged, Installed, TypeOK
<1>4. OwnersInv'
  BY <1>0 DEF Compare, OwnersInv, TypeOK
<1>5. CompareInv'
  BY <1>0 DEF Compare, CompareInv, Installed, TypeOK, IsIntact
<1>6. DestinationIsWhole'
  BY <1>0 DEF Compare, DestinationIsWhole
<1>7. SourceInv'
  BY <1>0 DEF Compare, SourceInv
<1> QED
  BY <1>1, <1>2, <1>3, <1>4, <1>5, <1>6, <1>7 DEF InstallInv

\* Finding no destination.
LEMMA FindNothingKeeps ==
  ASSUME TypeOK, InstallInv, NEW i \in Installers, FindNothing(i), UNCHANGED hashes
  PROVE  TypeOK' /\ InstallInv'
<1> USE DEF Goes
<1>0. WantedInv /\ StagingInv /\ OwnersInv /\ CompareInv /\ DestinationIsWhole /\ SourceInv
  BY DEF InstallInv
<1>1. TypeOK'
  BY <1>0 DEF FindNothing, TypeOK
<1>2. WantedInv'
  BY <1>0 DEF FindNothing, WantedInv, TypeOK
<1>3. StagingInv'
  BY <1>0 DEF FindNothing, StagingInv, Staged, Installed, TypeOK
<1>4. OwnersInv'
  BY <1>0 DEF FindNothing, OwnersInv, TypeOK
<1>5. CompareInv'
  BY <1>0 DEF FindNothing, CompareInv, Installed, TypeOK
<1>6. DestinationIsWhole'
  BY <1>0 DEF FindNothing, DestinationIsWhole
<1>7. SourceInv'
  BY <1>0 DEF FindNothing, SourceInv
<1> QED
  BY <1>1, <1>2, <1>3, <1>4, <1>5, <1>6, <1>7 DEF InstallInv

\* Compiling the hashes into the loaders.
LEMMA CompileKeeps ==
  ASSUME TypeOK, InstallInv, NEW i \in Installers, Compile(i), UNCHANGED hashes
  PROVE  TypeOK' /\ InstallInv'
<1> USE DEF Goes
<1>0. WantedInv /\ StagingInv /\ OwnersInv /\ CompareInv /\ DestinationIsWhole /\ SourceInv
  BY DEF InstallInv
<1>a. ASSUME installer[i] = "installed" PROVE NativeOf[wanted[i]] \in Natives
  BY <1>0, <1>a, BundleFiles DEF WantedInv
<1>b. "source" \notin Natives
  BY NamesAssumption
<1>1. TypeOK'
  BY <1>0, <1>a DEF Compile, TypeOK
<1>2. WantedInv'
  BY <1>0 DEF Compile, WantedInv, TypeOK
<1>3. StagingInv'
  BY <1>0 DEF Compile, StagingInv, Staged, Installed, TypeOK
<1>4. OwnersInv'
  BY <1>0 DEF Compile, OwnersInv, TypeOK
<1>5. CompareInv'
  BY <1>0 DEF Compile, CompareInv, Installed, TypeOK
<1>6. DestinationIsWhole'
  BY <1>0 DEF Compile, DestinationIsWhole
<1>7. SourceInv'
  BY <1>0, <1>a, <1>b DEF Compile, SourceInv
<1> QED
  BY <1>1, <1>2, <1>3, <1>4, <1>5, <1>6, <1>7 DEF InstallInv

\* The crash of an installer.
LEMMA CrashKeeps ==
  ASSUME TypeOK, InstallInv, NEW i \in Installers, Crash(i), UNCHANGED hashes
  PROVE  TypeOK' /\ InstallInv'
<1> USE DEF Goes
<1>0. WantedInv /\ StagingInv /\ OwnersInv /\ CompareInv /\ DestinationIsWhole /\ SourceInv
  BY DEF InstallInv
<1>1. TypeOK'
  BY <1>0 DEF Crash, TypeOK
<1>2. WantedInv'
  BY <1>0 DEF Crash, WantedInv, TypeOK
<1>3. StagingInv'
  BY <1>0 DEF Crash, StagingInv, Staged, Installed, TypeOK
<1>4. OwnersInv'
  BY <1>0 DEF Crash, OwnersInv, TypeOK
<1>5. CompareInv'
  BY <1>0 DEF Crash, CompareInv, Installed, TypeOK
<1>6. DestinationIsWhole'
  BY <1>0 DEF Crash, DestinationIsWhole
<1>7. SourceInv'
  BY <1>0 DEF Crash, SourceInv
<1> QED
  BY <1>1, <1>2, <1>3, <1>4, <1>5, <1>6, <1>7 DEF InstallInv

\* Making a staging directory.
LEMMA MakeStagingKeeps ==
  ASSUME TypeOK, InstallInv, NEW i \in Installers, MakeStaging(i), UNCHANGED hashes
  PROVE  TypeOK' /\ InstallInv'
<1> USE DEF Goes
<1>0. WantedInv /\ StagingInv /\ OwnersInv /\ CompareInv /\ DestinationIsWhole /\ SourceInv
  BY DEF InstallInv
<1>a. ASSUME installer[i] = "staging"
      PROVE  wanted[i] \in Bundles /\ FilesOf(wanted[i]) \cup {Receipt} \subseteq Paths
  BY <1>0, <1>a, BundleFiles DEF WantedInv
<1>b. IsDirectory([path \in {} |-> None])
  BY DirectoriesAre
<1>c. \A j \in Installers : installer[j] = "writing" => staging[number[j]] # None
  BY <1>0, DirectoriesAre DEF StagingInv, Staged
<1>1. TypeOK'
  BY <1>0, <1>a, <1>b DEF MakeStaging, TypeOK, IsFresh
<1>2. WantedInv'
  BY <1>0 DEF MakeStaging, WantedInv, TypeOK
<1>3. StagingInv'
  BY <1>0, <1>a, <1>b, <1>c DEF MakeStaging, StagingInv, Staged, Installed, TypeOK, IsFresh
<1>4. OwnersInv'
  BY <1>0, <1>c DEF MakeStaging, OwnersInv, TypeOK, IsFresh
<1>5. CompareInv'
  BY <1>0 DEF MakeStaging, CompareInv, Installed, TypeOK
<1>6. DestinationIsWhole'
  BY <1>0 DEF MakeStaging, DestinationIsWhole
<1>7. SourceInv'
  BY <1>0 DEF MakeStaging, SourceInv
<1> QED
  BY <1>1, <1>2, <1>3, <1>4, <1>5, <1>6, <1>7 DEF InstallInv

\* Writing a staged file.
LEMMA WriteKeeps ==
  ASSUME TypeOK, InstallInv, NEW i \in Installers, Write(i), UNCHANGED hashes
  PROVE  TypeOK' /\ InstallInv'
<1> USE DEF Goes
<1>0. WantedInv /\ StagingInv /\ OwnersInv /\ CompareInv /\ DestinationIsWhole /\ SourceInv
  BY DEF InstallInv
<1>a. /\ installer[i] = "writing" /\ installer' = installer
      /\ wanted' = wanted /\ number' = number
  BY DEF Write
<1>b. /\ wanted[i] \in Bundles /\ number[i] \in Numbers /\ IsDirectory(Staged(i))
      /\ remaining[i] \subseteq Installed(i) /\ Installed(i) \subseteq Paths
      /\ DOMAIN Staged(i) \subseteq Installed(i)
  BY <1>0, <1>a, BundleFiles DEF WantedInv, StagingInv, Installed
<1>p. ASSUME NEW path \in remaining[i]
      PROVE  Partial(path) \in Contents /\ Content(wanted[i], path) \in Contents
  BY <1>b, BundleFiles DEF Partial, Contents
<1>c. PICK path \in remaining[i], content \in Contents :
        /\ \/ content = Partial(path) /\ remaining' = [remaining EXCEPT ![i] = remaining[i]]
           \/ /\ content = Content(wanted[i], path)
              /\ remaining' = [remaining EXCEPT ![i] = remaining[i] \ {path}]
        /\ staging' = [staging EXCEPT ![number[i]] =
             [p \in DOMAIN Staged(i) \cup {path} |-> IF p = path THEN content ELSE Staged(i)[p]]]
  <2>1. PICK path \in Writable(i) :
          /\ remaining' = [remaining EXCEPT ![i] =
               IF Has(Staged(i), path, Partial(path)) THEN remaining[i] \ {path} ELSE remaining[i]]
          /\ staging' = [staging EXCEPT ![number[i]] =
               [p \in DOMAIN Staged(i) \cup {path} |->
                  IF p = path
                  THEN IF Has(Staged(i), path, Partial(path))
                       THEN Content(wanted[i], path) ELSE Partial(path)
                  ELSE Staged(i)[p]]]
    BY Zenon DEF Write, Staged
  <2>2. path \in remaining[i]
    BY <2>1 DEF Writable
  <2>3. CASE Has(Staged(i), path, Partial(path))
    <3>1. staging' = [staging EXCEPT ![number[i]] =
            [p \in DOMAIN Staged(i) \cup {path} |->
               IF p = path THEN Content(wanted[i], path) ELSE Staged(i)[p]]]
      BY <2>1, <2>3
    <3>2. remaining' = [remaining EXCEPT ![i] = remaining[i] \ {path}]
      BY <2>1, <2>3
    <3> QED
      BY <1>p, <2>2, <3>1, <3>2, Zenon
  <2>4. CASE ~Has(Staged(i), path, Partial(path))
    <3>1. staging' = [staging EXCEPT ![number[i]] =
            [p \in DOMAIN Staged(i) \cup {path} |->
               IF p = path THEN Partial(path) ELSE Staged(i)[p]]]
      BY <2>1, <2>4
    <3>2. remaining' = [remaining EXCEPT ![i] = remaining[i]]
      BY <2>1, <2>4
    <3> QED
      BY <1>p, <2>2, <3>1, <3>2, Zenon
  <2> QED
    BY <2>3, <2>4
<1>d. path \in Installed(i) /\ path \in Paths
  BY <1>b
<1>e. /\ DOMAIN staging' = DOMAIN staging
      /\ \A n \in Numbers : n # number[i] => staging'[n] = staging[n]
      /\ staging'[number[i]] =
           [p \in DOMAIN Staged(i) \cup {path} |-> IF p = path THEN content ELSE Staged(i)[p]]
  BY <1>b, <1>c DEF TypeOK
<1>f. /\ IsDirectory(staging'[number[i]])
      /\ DOMAIN (staging'[number[i]]) = DOMAIN Staged(i) \cup {path}
      /\ Has(staging'[number[i]], path, content)
      /\ \A p, c : p # path /\ Has(Staged(i), p, c) => Has(staging'[number[i]], p, c)
  BY <1>b, <1>d, <1>e, WriteKeepsDirectory
<1>g. /\ \A j \in Installers : j # i => remaining'[j] = remaining[j]
      /\ \/ content = Partial(path) /\ remaining'[i] = remaining[i]
         \/ content = Content(wanted[i], path) /\ remaining'[i] = remaining[i] \ {path}
      /\ remaining' \in [Installers -> SUBSET Paths]
  BY <1>c DEF TypeOK
<1>h. \A j \in Installers : j # i /\ installer[j] = "writing" =>
        number[j] # number[i] /\ number[j] \in Numbers
  BY <1>0, <1>a DEF OwnersInv, StagingInv
<1>1. TypeOK'
  BY <1>a, <1>e, <1>f, <1>g DEF Write, TypeOK
<1>2. WantedInv'
  BY <1>0, <1>a DEF WantedInv
<1>3. StagingInv'
  <2> SUFFICES ASSUME NEW j \in Installers, installer[j] = "writing"
               PROVE  /\ number[j] \in Numbers
                      /\ IsDirectory(staging'[number[j]])
                      /\ remaining'[j] \subseteq Installed(j)
                      /\ DOMAIN (staging'[number[j]]) \subseteq Installed(j)
                      /\ \A p \in Installed(j) \ remaining'[j] :
                            Has(staging'[number[j]], p, Content(wanted[j], p))
    BY <1>a DEF StagingInv, Staged, Installed
  <2>1. CASE j = i
    <3>1. \A p \in Installed(i) \ remaining[i] : Has(Staged(i), p, Content(wanted[i], p))
      BY <1>0, <1>a DEF StagingInv
    <3>2. ASSUME NEW p \in Installed(i) \ remaining'[i]
          PROVE  Has(staging'[number[i]], p, Content(wanted[i], p))
      <4>1. CASE p = path
        BY <1>c, <1>f, <1>g, <4>1
      <4>2. CASE p # path
        BY <1>f, <1>g, <3>1, <4>2
      <4> QED
        BY <4>1, <4>2
    <3> QED
      BY <1>b, <1>d, <1>f, <1>g, <2>1, <3>2
  <2>2. CASE j # i
    <3>1. staging'[number[j]] = Staged(j) /\ remaining'[j] = remaining[j]
      BY <1>e, <1>g, <1>h, <2>2 DEF Staged
    <3> QED
      BY <1>0, <3>1 DEF StagingInv
  <2> QED
    BY <2>1, <2>2
<1>4. OwnersInv'
  BY <1>0, <1>a DEF OwnersInv
<1>5. CompareInv'
  <2>1. \A j \in Installers : installer[j] = "comparing" => remaining'[j] = remaining[j]
    BY <1>a, <1>g
  <2> QED
    BY <1>0, <1>a, <2>1 DEF CompareInv, Installed, Write
<1>6. DestinationIsWhole'
  BY <1>0 DEF Write, DestinationIsWhole
<1>7. SourceInv'
  BY <1>0 DEF Write, SourceInv
<1> QED
  BY <1>1, <1>2, <1>3, <1>4, <1>5, <1>6, <1>7 DEF InstallInv

\* Renaming the staging directory.
LEMMA RenameKeeps ==
  ASSUME TypeOK, InstallInv, NEW i \in Installers, Rename(i), UNCHANGED hashes
  PROVE  TypeOK' /\ InstallInv'
<1> USE DEF Goes
<1>0. WantedInv /\ StagingInv /\ OwnersInv /\ CompareInv /\ DestinationIsWhole /\ SourceInv
  BY DEF InstallInv
<1>a. /\ installer[i] = "writing" /\ remaining[i] = {}
      /\ UNCHANGED <<wanted, number, remaining, compiled, damages>>
      /\ \/ /\ destination = None /\ destination' = Staged(i)
            /\ staging' = [staging EXCEPT ![number[i]] = None]
            /\ installer' = [installer EXCEPT ![i] = "installed"]
         \/ /\ UNCHANGED <<destination, staging>>
            /\ installer' = [installer EXCEPT ![i] = "raised"]
  BY DEF Rename, MayRename, IsStaged, Staged
<1>b. /\ wanted[i] \in Bundles /\ number[i] \in Numbers /\ IsDirectory(Staged(i))
      /\ Staged(i) # None
  BY <1>0, <1>a, DirectoriesAre DEF WantedInv, StagingInv
<1>c. Staged(i) = Installation(wanted[i])
  BY <1>0, <1>a, <1>b, CompleteIsInstallation DEF StagingInv, Installed
<1>d. \A j \in Installers : j # i =>
        /\ installer'[j] = installer[j]
        /\ installer[j] = "writing" => staging'[number[j]] = staging[number[j]]
  BY <1>0, <1>a, <1>b DEF OwnersInv, StagingInv, TypeOK
<1>e. installer'[i] \in {"installed", "raised"}
  BY <1>a DEF TypeOK
<1>f. compiled = "source" \/ (\E v \in Boots : hashes[v] = "source") => destination # None
  BY <1>0, DirectoriesAre DEF SourceInv
<1>1. TypeOK'
  BY <1>a, <1>b DEF TypeOK
<1>2. WantedInv'
  BY <1>0, <1>a, <1>b, <1>d DEF WantedInv
<1>3. StagingInv'
  BY <1>0, <1>a, <1>d, <1>e DEF StagingInv, Staged, Installed
<1>4. OwnersInv'
  BY <1>0, <1>a, <1>d, <1>e DEF OwnersInv
<1>5. CompareInv'
  BY <1>0, <1>a, <1>d, <1>e DEF CompareInv, Installed
<1>6. DestinationIsWhole'
  BY <1>0, <1>a, <1>b, <1>c DEF DestinationIsWhole
<1>7. SourceInv'
  BY <1>0, <1>a, <1>f DEF SourceInv
<1> QED
  BY <1>1, <1>2, <1>3, <1>4, <1>5, <1>6, <1>7 DEF InstallInv

\* Building the sources.
LEMMA SourceKeeps ==
  ASSUME TypeOK, InstallInv, NEW i \in Installers,
         Source(i) /\ (\A j \in Installers : installer[j] # "comparing"), UNCHANGED hashes
  PROVE  TypeOK' /\ InstallInv'
<1> USE DEF Goes
<1>0. WantedInv /\ StagingInv /\ OwnersInv /\ CompareInv /\ DestinationIsWhole /\ SourceInv
  BY DEF InstallInv
<1>a. IsDirectory(SourceBuild) /\ ~HasReceipt(SourceBuild)
  BY DirectoriesAre, NamesAssumption DEF HasReceipt, SourceBuild
<1>b. ASSUME destination = SourceBuild PROVE ~HasReceipt(destination)
  BY <1>a, <1>b
<1>1. TypeOK'
  BY <1>0, <1>a DEF Source, TypeOK
<1>2. WantedInv'
  BY <1>0 DEF Source, WantedInv, TypeOK
<1>3. StagingInv'
  BY <1>0 DEF Source, StagingInv, Staged, Installed, TypeOK
<1>4. OwnersInv'
  BY <1>0 DEF Source, OwnersInv, TypeOK
<1>5. CompareInv'
  BY <1>0 DEF Source, CompareInv, Installed, TypeOK
<1>6. DestinationIsWhole'
  BY <1>0, <1>a DEF Source, DestinationIsWhole
<1>7. SourceInv'
  BY <1>0, <1>a, <1>b DEF Source, SourceInv
<1> QED
  BY <1>1, <1>2, <1>3, <1>4, <1>5, <1>6, <1>7 DEF InstallInv

\* Damage to an installed file.
LEMMA DamageKeeps ==
  ASSUME TypeOK, InstallInv,
         Damage /\ (\A j \in Installers : installer[j] # "comparing"), UNCHANGED hashes
  PROVE  TypeOK' /\ InstallInv'
<1> USE DEF Goes
<1>0. WantedInv /\ StagingInv /\ OwnersInv /\ CompareInv /\ DestinationIsWhole /\ SourceInv
  BY DEF InstallInv
<1>a. /\ HasReceipt(destination) /\ damages < MaxDamages /\ damages' = damages + 1
      /\ UNCHANGED <<staging, installer, wanted, number, remaining, compiled>>
  BY DEF Damage
<1>b. PICK path \in DOMAIN destination :
        \/ destination' = [p \in DOMAIN destination \ {path} |-> destination[p]]
        \/ destination' = [destination EXCEPT ![path] = Damaged(path)]
  BY DEF Damage
<1>c. IsDirectory(destination)
  BY <1>a DEF HasReceipt, TypeOK
<1>d. IsDirectory(destination')
  <2>1. /\ DOMAIN destination \subseteq Paths
        /\ destination = [p \in DOMAIN destination |-> destination[p]]
        /\ \A p \in DOMAIN destination : destination[p] \in Contents
    BY <1>c, DirectoryIsFunction
  <2>2. Damaged(path) \in Contents
    BY <2>1 DEF Damaged, Contents
  <2>3. CASE destination' = [p \in DOMAIN destination \ {path} |-> destination[p]]
    <3>1. DOMAIN destination \ {path} \in SUBSET Paths
      BY <2>1
    <3>2. destination' \in [DOMAIN destination \ {path} -> Contents]
      BY <2>1, <2>3
    <3> QED
      BY <3>1, <3>2, FunctionIsDirectory
  <2>4. CASE destination' = [destination EXCEPT ![path] = Damaged(path)]
    <3>1. DOMAIN destination \in SUBSET Paths
      BY <2>1
    <3>2. destination' \in [DOMAIN destination -> Contents]
      BY <2>1, <2>2, <2>4
    <3> QED
      BY <3>1, <3>2, FunctionIsDirectory
  <2> QED
    BY <1>b, <2>3, <2>4
<1>e. damages' \in 0..MaxDamages /\ damages' # 0
  BY <1>a, BundleAssumption DEF TypeOK
<1>f. destination # SourceBuild
  BY <1>a, NamesAssumption DEF HasReceipt, SourceBuild
<1>1. TypeOK'
  BY <1>a, <1>d, <1>e DEF TypeOK
<1>2. WantedInv'
  BY <1>0, <1>a DEF WantedInv
<1>3. StagingInv'
  BY <1>0, <1>a DEF StagingInv, Staged, Installed
<1>4. OwnersInv'
  BY <1>0, <1>a DEF OwnersInv
<1>5. CompareInv'
  BY <1>a DEF CompareInv
<1>6. DestinationIsWhole'
  BY <1>e DEF DestinationIsWhole
<1>7. SourceInv'
  BY <1>0, <1>a, <1>f DEF SourceInv
<1> QED
  BY <1>1, <1>2, <1>3, <1>4, <1>5, <1>6, <1>7 DEF InstallInv

-----------------------------------------------------------------------------
(***************************************************************************)
(* The steps of the loader.                                                *)
(***************************************************************************)

\* The effect of setting one module's entry of one machine.
LEMMA SetEntry ==
  ASSUME NEW S, NEW f \in [Boots -> [Modules -> S]], NEW v \in Boots, NEW m \in Modules,
         NEW x \in S, NEW g, g = [f EXCEPT ![v][m] = x]
  PROVE  /\ g \in [Boots -> [Modules -> S]]
         /\ g[v][m] = x
         /\ \A w \in Boots, k \in Modules : w # v \/ k # m => g[w][k] = f[w][k]
OBVIOUS

\* A machine starts.
LEMMA PowerOnKeeps ==
  ASSUME LoaderTypeOK, Invariant, NEW v \in Boots, PowerOn(v),
         UNCHANGED installVars
  PROVE  LoaderTypeOK' /\ SourceInv' /\ VerifyInv' /\ LoadedInv'
<1>0. SourceInv /\ VerifyInv /\ LoadedInv
  BY DEF Invariant, InstallInv
<1> USE DEF installVars
<1>1. LoaderTypeOK'
  BY <1>0 DEF PowerOn, LoaderTypeOK, TypeOK
<1>2. SourceInv'
  BY <1>0 DEF PowerOn, SourceInv
<1>3. VerifyInv'
  BY <1>0 DEF PowerOn, VerifyInv, LoadedInv, LoaderTypeOK
<1>4. LoadedInv'
  BY <1>0 DEF PowerOn, LoadedInv
<1> QED
  BY <1>1, <1>2, <1>3, <1>4

\* A machine has booted.
LEMMA BootedKeeps ==
  ASSUME LoaderTypeOK, Invariant, NEW v \in Boots, Booted(v),
         UNCHANGED installVars
  PROVE  LoaderTypeOK' /\ SourceInv' /\ VerifyInv' /\ LoadedInv'
<1>0. SourceInv /\ VerifyInv /\ LoadedInv
  BY DEF Invariant, InstallInv
<1> USE DEF installVars
<1>1. LoaderTypeOK'
  BY <1>0 DEF Booted, LoaderTypeOK, TypeOK
<1>2. SourceInv'
  BY <1>0 DEF Booted, SourceInv
<1>3. VerifyInv'
  BY <1>0 DEF Booted, VerifyInv
<1>4. LoadedInv'
  BY <1>0 DEF Booted, LoadedInv
<1> QED
  BY <1>1, <1>2, <1>3, <1>4

\* The application starts, or refuses to.
LEMMA StartKeeps ==
  ASSUME LoaderTypeOK, Invariant, NEW v \in Boots, Start(v),
         UNCHANGED installVars
  PROVE  LoaderTypeOK' /\ SourceInv' /\ VerifyInv' /\ LoadedInv'
<1>0. SourceInv /\ VerifyInv /\ LoadedInv
  BY DEF Invariant, InstallInv
<1> USE DEF installVars
<1>1. LoaderTypeOK'
  BY <1>0 DEF Start, LoaderTypeOK, TypeOK
<1>2. SourceInv'
  BY <1>0 DEF Start, SourceInv
<1>3. VerifyInv'
  BY <1>0 DEF Start, VerifyInv
<1>4. LoadedInv'
  BY <1>0 DEF Start, LoadedInv, LoaderTypeOK, IsActive
<1> QED
  BY <1>1, <1>2, <1>3, <1>4

\* The application is started again.
LEMMA StartAgainKeeps ==
  ASSUME LoaderTypeOK, Invariant, NEW v \in Boots, StartAgain(v),
         UNCHANGED installVars
  PROVE  LoaderTypeOK' /\ SourceInv' /\ VerifyInv' /\ LoadedInv'
<1>0. SourceInv /\ VerifyInv /\ LoadedInv
  BY DEF Invariant, InstallInv
<1> USE DEF installVars
<1>1. LoaderTypeOK'
  BY <1>0 DEF StartAgain, LoaderTypeOK, TypeOK
<1>2. SourceInv'
  BY <1>0 DEF StartAgain, SourceInv
<1>3. VerifyInv'
  BY <1>0 DEF StartAgain, VerifyInv
<1>4. LoadedInv'
  BY <1>0 DEF StartAgain, LoadedInv, LoaderTypeOK
<1> QED
  BY <1>1, <1>2, <1>3, <1>4

\* The on_load handler of a module.
LEMMA OnLoadKeeps ==
  ASSUME LoaderTypeOK, Invariant, NEW v \in Boots, NEW m \in Modules, OnLoad(v, m),
         UNCHANGED installVars
  PROVE  LoaderTypeOK' /\ SourceInv' /\ VerifyInv' /\ LoadedInv'
<1>0. SourceInv /\ VerifyInv /\ LoadedInv
  BY DEF Invariant, InstallInv
<1> USE DEF installVars
<1>a. /\ UNCHANGED <<boot, embedded, crypto, hashes, library>> /\ module[v][m] # "loaded"
      /\ boot[v] # "down"
  BY <1>0 DEF OnLoad, LoadNifs, Running, LoadedInv, LoaderTypeOK
<1>b. \/ /\ UNCHANGED <<module, unverified>> /\ deferred' = [deferred EXCEPT ![v] = @ \cup {m}]
      \/ /\ module' = [module EXCEPT ![v][m] = "verifying"]
         /\ unverified' = [unverified EXCEPT ![v][m] =
              IF hashes[v] = "source" THEN {} ELSE Libraries]
         /\ UNCHANGED deferred
  BY DEF OnLoad, LoadNifs
<1>t. /\ module \in [Boots -> [Modules -> {"absent", "verifying", "failed", "loaded"}]]
      /\ unverified \in [Boots -> [Modules -> SUBSET Libraries]]
      /\ library \in [Boots -> [Modules -> Contents \cup {None}]]
      /\ deferred \in [Boots -> SUBSET Modules]
  BY DEF LoaderTypeOK
<1>c. /\ module' \in [Boots -> [Modules -> {"absent", "verifying", "failed", "loaded"}]]
      /\ unverified' \in [Boots -> [Modules -> SUBSET Libraries]]
      /\ deferred' \in [Boots -> SUBSET Modules]
      /\ \/ UNCHANGED <<module, unverified>>
         \/ /\ module'[v][m] = "verifying"
            /\ unverified'[v][m] = IF hashes[v] = "source" THEN {} ELSE Libraries
            /\ \A w \in Boots, k \in Modules : w # v \/ k # m =>
                 module'[w][k] = module[w][k] /\ unverified'[w][k] = unverified[w][k]
  <2>1. CASE UNCHANGED <<module, unverified>> /\ deferred' = [deferred EXCEPT ![v] = @ \cup {m}]
    BY <1>t, <2>1
  <2> DEFINE libraries == IF hashes[v] = "source" THEN {} ELSE Libraries
  <2>2. CASE /\ module' = [module EXCEPT ![v][m] = "verifying"]
             /\ unverified' = [unverified EXCEPT ![v][m] = libraries]
             /\ UNCHANGED deferred
    <3>1. /\ module' \in [Boots -> [Modules -> {"absent", "verifying", "failed", "loaded"}]]
          /\ module'[v][m] = "verifying"
          /\ \A w \in Boots, k \in Modules : w # v \/ k # m => module'[w][k] = module[w][k]
      BY <1>t, <2>2, SetEntry
    <3>2. libraries \in SUBSET Libraries
      OBVIOUS
    <3> HIDE DEF libraries
    <3>3. /\ unverified' \in [Boots -> [Modules -> SUBSET Libraries]]
          /\ unverified'[v][m] = libraries
          /\ \A w \in Boots, k \in Modules : w # v \/ k # m => unverified'[w][k] = unverified[w][k]
      BY <1>t, <2>2, <3>2, SetEntry
    <3> QED
      BY <1>t, <2>2, <3>1, <3>3 DEF libraries
  <2> QED
    BY <1>b, <2>1, <2>2
<1>1. LoaderTypeOK'
  BY <1>a, <1>c DEF LoaderTypeOK, TypeOK
<1>2. SourceInv'
  BY <1>0, <1>a DEF SourceInv
<1>3. VerifyInv'
  BY <1>0, <1>a, <1>c DEF VerifyInv
<1>4. LoadedInv'
  BY <1>0, <1>a, <1>c DEF LoadedInv
<1> QED
  BY <1>1, <1>2, <1>3, <1>4

\* A deferred module is activated.
LEMMA ActivateKeeps ==
  ASSUME LoaderTypeOK, Invariant, NEW v \in Boots, NEW m \in Modules, Activate(v, m),
         UNCHANGED installVars
  PROVE  LoaderTypeOK' /\ SourceInv' /\ VerifyInv' /\ LoadedInv'
<1>0. SourceInv /\ VerifyInv /\ LoadedInv
  BY DEF Invariant, InstallInv
<1> USE DEF installVars
<1>a. /\ UNCHANGED <<boot, embedded, crypto, hashes, library>> /\ module[v][m] # "loaded"
      /\ boot[v] # "down"
  BY <1>0 DEF Activate, LoadNifs, Running, LoadedInv, LoaderTypeOK
<1>b. \/ /\ UNCHANGED <<module, unverified>> /\ deferred' = [deferred EXCEPT ![v] = @ \cup {m}]
      \/ /\ module' = [module EXCEPT ![v][m] = "verifying"]
         /\ unverified' = [unverified EXCEPT ![v][m] =
              IF hashes[v] = "source" THEN {} ELSE Libraries]
         /\ UNCHANGED deferred
  BY DEF Activate, LoadNifs
<1>t. /\ module \in [Boots -> [Modules -> {"absent", "verifying", "failed", "loaded"}]]
      /\ unverified \in [Boots -> [Modules -> SUBSET Libraries]]
      /\ library \in [Boots -> [Modules -> Contents \cup {None}]]
      /\ deferred \in [Boots -> SUBSET Modules]
  BY DEF LoaderTypeOK
<1>c. /\ module' \in [Boots -> [Modules -> {"absent", "verifying", "failed", "loaded"}]]
      /\ unverified' \in [Boots -> [Modules -> SUBSET Libraries]]
      /\ deferred' \in [Boots -> SUBSET Modules]
      /\ \/ UNCHANGED <<module, unverified>>
         \/ /\ module'[v][m] = "verifying"
            /\ unverified'[v][m] = IF hashes[v] = "source" THEN {} ELSE Libraries
            /\ \A w \in Boots, k \in Modules : w # v \/ k # m =>
                 module'[w][k] = module[w][k] /\ unverified'[w][k] = unverified[w][k]
  <2>1. CASE UNCHANGED <<module, unverified>> /\ deferred' = [deferred EXCEPT ![v] = @ \cup {m}]
    BY <1>t, <2>1
  <2> DEFINE libraries == IF hashes[v] = "source" THEN {} ELSE Libraries
  <2>2. CASE /\ module' = [module EXCEPT ![v][m] = "verifying"]
             /\ unverified' = [unverified EXCEPT ![v][m] = libraries]
             /\ UNCHANGED deferred
    <3>1. /\ module' \in [Boots -> [Modules -> {"absent", "verifying", "failed", "loaded"}]]
          /\ module'[v][m] = "verifying"
          /\ \A w \in Boots, k \in Modules : w # v \/ k # m => module'[w][k] = module[w][k]
      BY <1>t, <2>2, SetEntry
    <3>2. libraries \in SUBSET Libraries
      OBVIOUS
    <3> HIDE DEF libraries
    <3>3. /\ unverified' \in [Boots -> [Modules -> SUBSET Libraries]]
          /\ unverified'[v][m] = libraries
          /\ \A w \in Boots, k \in Modules : w # v \/ k # m => unverified'[w][k] = unverified[w][k]
      BY <1>t, <2>2, <3>2, SetEntry
    <3> QED
      BY <1>t, <2>2, <3>1, <3>3 DEF libraries
  <2> QED
    BY <1>b, <2>1, <2>2
<1>1. LoaderTypeOK'
  BY <1>a, <1>c DEF LoaderTypeOK, TypeOK
<1>2. SourceInv'
  BY <1>0, <1>a DEF SourceInv
<1>3. VerifyInv'
  BY <1>0, <1>a, <1>c DEF VerifyInv
<1>4. LoadedInv'
  BY <1>0, <1>a, <1>c DEF LoadedInv
<1> QED
  BY <1>1, <1>2, <1>3, <1>4

\* A library is verified.
LEMMA VerifyLibraryKeeps ==
  ASSUME LoaderTypeOK, Invariant, NEW v \in Boots, NEW m \in Modules, VerifyLibrary(v, m),
         UNCHANGED installVars
  PROVE  LoaderTypeOK' /\ SourceInv' /\ VerifyInv' /\ LoadedInv'
<1>0. SourceInv /\ VerifyInv /\ LoadedInv
  BY DEF Invariant, InstallInv
<1> USE DEF installVars
<1>a. UNCHANGED <<boot, embedded, crypto, hashes, deferred, library>> /\ module[v][m] = "verifying"
  BY DEF VerifyLibrary
<1>b. PICK path \in unverified[v][m] :
        \/ /\ Has(destination, path, <<hashes[v], path>>)
           /\ unverified' = [unverified EXCEPT ![v][m] = unverified[v][m] \ {path}]
           /\ UNCHANGED module
        \/ /\ unverified' = [unverified EXCEPT ![v][m] = {}]
           /\ module' = [module EXCEPT ![v][m] = "failed"]
  BY DEF VerifyLibrary, ToVerify
<1>t. /\ module \in [Boots -> [Modules -> {"absent", "verifying", "failed", "loaded"}]]
      /\ unverified \in [Boots -> [Modules -> SUBSET Libraries]]
      /\ library \in [Boots -> [Modules -> Contents \cup {None}]]
      /\ deferred \in [Boots -> SUBSET Modules]
  BY DEF LoaderTypeOK
<1>c. /\ module' \in [Boots -> [Modules -> {"absent", "verifying", "failed", "loaded"}]]
      /\ unverified' \in [Boots -> [Modules -> SUBSET Libraries]]
      /\ \A w \in Boots, k \in Modules : w # v \/ k # m =>
           module'[w][k] = module[w][k] /\ unverified'[w][k] = unverified[w][k]
      /\ \/ /\ Has(destination, path, <<hashes[v], path>>)
            /\ unverified'[v][m] = unverified[v][m] \ {path}
            /\ UNCHANGED module
         \/ module'[v][m] = "failed"
  <2>1. CASE /\ Has(destination, path, <<hashes[v], path>>)
             /\ unverified' = [unverified EXCEPT ![v][m] = unverified[v][m] \ {path}]
             /\ UNCHANGED module
    <3> DEFINE left == unverified[v][m] \ {path}
    <3>1. left \in SUBSET Libraries
      BY <1>t
    <3>2. unverified' = [unverified EXCEPT ![v][m] = left]
      BY <2>1
    <3> HIDE DEF left
    <3>3. /\ unverified' \in [Boots -> [Modules -> SUBSET Libraries]]
          /\ unverified'[v][m] = left
          /\ \A w \in Boots, k \in Modules : w # v \/ k # m => unverified'[w][k] = unverified[w][k]
      BY <1>t, <3>1, <3>2, SetEntry
    <3> QED
      BY <1>t, <2>1, <3>3 DEF left
  <2>2. CASE /\ unverified' = [unverified EXCEPT ![v][m] = {}]
             /\ module' = [module EXCEPT ![v][m] = "failed"]
    <3>1. /\ unverified' \in [Boots -> [Modules -> SUBSET Libraries]]
          /\ \A w \in Boots, k \in Modules : w # v \/ k # m => unverified'[w][k] = unverified[w][k]
      BY <1>t, <2>2, SetEntry
    <3>2. /\ module' \in [Boots -> [Modules -> {"absent", "verifying", "failed", "loaded"}]]
          /\ module'[v][m] = "failed"
          /\ \A w \in Boots, k \in Modules : w # v \/ k # m => module'[w][k] = module[w][k]
      BY <1>t, <2>2, SetEntry
    <3> QED
      BY <3>1, <3>2
  <2> QED
    BY <1>b, <2>1, <2>2
<1>1. LoaderTypeOK'
  BY <1>a, <1>c DEF LoaderTypeOK, TypeOK
<1>2. SourceInv'
  BY <1>0, <1>a DEF SourceInv
<1>3. VerifyInv'
  BY <1>0, <1>a, <1>c DEF VerifyInv
<1>4. LoadedInv'
  BY <1>0, <1>a, <1>c DEF LoadedInv
<1> QED
  BY <1>1, <1>2, <1>3, <1>4

\* What a module that loads its library loads is the library whose hash is compiled into it.
LEMMA LoadsItsLibrary ==
  ASSUME SourceInv, VerifyInv, NEW v \in Boots, NEW m \in Modules,
         module[v][m] = "verifying", unverified[v][m] = {},
         destination # None, m \in DOMAIN destination
  PROVE  destination[m] = <<hashes[v], m>>
<1>1. m \in Libraries
  BY ModuleAssumption
<1>2. CASE hashes[v] = "source"
  BY <1>1, <1>2 DEF SourceInv, SourceBuild
<1>3. CASE hashes[v] # "source"
  BY <1>1, <1>3 DEF VerifyInv, Has
<1> QED
  BY <1>2, <1>3

\* A library is loaded, or refused.
LEMMA LoadLibraryKeeps ==
  ASSUME LoaderTypeOK, Invariant, NEW v \in Boots, NEW m \in Modules, LoadLibrary(v, m),
         UNCHANGED installVars
  PROVE  LoaderTypeOK' /\ SourceInv' /\ VerifyInv' /\ LoadedInv'
<1>0. SourceInv /\ VerifyInv /\ LoadedInv
  BY DEF Invariant, InstallInv
<1> USE DEF installVars
<1>a. /\ UNCHANGED <<boot, embedded, crypto, hashes>>
      /\ module[v][m] = "verifying" /\ unverified[v][m] = {}
      /\ unverified' = [unverified EXCEPT ![v][m] = {}]
  BY DEF LoadLibrary, ToVerify
<1>b. \/ /\ destination # None /\ m \in DOMAIN destination
         /\ module' = [module EXCEPT ![v][m] = "loaded"]
         /\ library' = [library EXCEPT ![v][m] = destination[m]]
         /\ deferred' = [deferred EXCEPT ![v] = @ \ {m}]
      \/ /\ module' = [module EXCEPT ![v][m] = "failed"]
         /\ UNCHANGED <<library, deferred>>
  BY DEF LoadLibrary
<1>t. /\ module \in [Boots -> [Modules -> {"absent", "verifying", "failed", "loaded"}]]
      /\ unverified \in [Boots -> [Modules -> SUBSET Libraries]]
      /\ library \in [Boots -> [Modules -> Contents \cup {None}]]
      /\ deferred \in [Boots -> SUBSET Modules]
  BY DEF LoaderTypeOK
<1>u. /\ unverified' \in [Boots -> [Modules -> SUBSET Libraries]]
      /\ \A w \in Boots, k \in Modules : w # v \/ k # m => unverified'[w][k] = unverified[w][k]
  BY <1>a, <1>t, SetEntry
<1>l. ASSUME destination # None, m \in DOMAIN destination PROVE destination[m] \in Contents
  BY <1>l, DirectoryIsFunction DEF LoaderTypeOK, TypeOK
<1>c. /\ module' \in [Boots -> [Modules -> {"absent", "verifying", "failed", "loaded"}]]
      /\ deferred' \in [Boots -> SUBSET Modules]
      /\ library' \in [Boots -> [Modules -> Contents \cup {None}]]
      /\ \A w \in Boots, k \in Modules : w # v \/ k # m =>
           /\ module'[w][k] = module[w][k] /\ unverified'[w][k] = unverified[w][k]
           /\ library'[w][k] = library[w][k]
      /\ \/ /\ destination # None /\ m \in DOMAIN destination
            /\ module'[v][m] = "loaded" /\ library'[v][m] = destination[m]
         \/ module'[v][m] = "failed"
  <2>1. CASE /\ destination # None /\ m \in DOMAIN destination
             /\ module' = [module EXCEPT ![v][m] = "loaded"]
             /\ library' = [library EXCEPT ![v][m] = destination[m]]
             /\ deferred' = [deferred EXCEPT ![v] = @ \ {m}]
    <3>1. /\ module' \in [Boots -> [Modules -> {"absent", "verifying", "failed", "loaded"}]]
          /\ module'[v][m] = "loaded"
          /\ \A w \in Boots, k \in Modules : w # v \/ k # m => module'[w][k] = module[w][k]
      BY <1>t, <2>1, SetEntry
    <3>2. destination[m] \in Contents \cup {None}
      BY <1>l, <2>1
    <3>3. /\ library' \in [Boots -> [Modules -> Contents \cup {None}]]
          /\ library'[v][m] = destination[m]
          /\ \A w \in Boots, k \in Modules : w # v \/ k # m => library'[w][k] = library[w][k]
      BY <1>t, <2>1, <3>2, SetEntry
    <3> QED
      BY <1>t, <1>u, <2>1, <3>1, <3>3
  <2>2. CASE /\ module' = [module EXCEPT ![v][m] = "failed"]
             /\ UNCHANGED <<library, deferred>>
    <3>1. /\ module' \in [Boots -> [Modules -> {"absent", "verifying", "failed", "loaded"}]]
          /\ module'[v][m] = "failed"
          /\ \A w \in Boots, k \in Modules : w # v \/ k # m => module'[w][k] = module[w][k]
      BY <1>t, <2>2, SetEntry
    <3> QED
      BY <1>t, <1>u, <2>2, <3>1
  <2> QED
    BY <1>b, <2>1, <2>2
<1>e. destination # None /\ m \in DOMAIN destination => destination[m] = <<hashes[v], m>>
  BY <1>0, <1>a, LoadsItsLibrary
<1>f. boot[v] \notin {"down", "started"}
  BY <1>0, <1>a DEF LoadedInv
<1>1. LoaderTypeOK'
  BY <1>a, <1>c, <1>u DEF LoaderTypeOK, TypeOK
<1>2. SourceInv'
  BY <1>0, <1>a DEF SourceInv
<1>3. VerifyInv'
  BY <1>0, <1>a, <1>c DEF VerifyInv
<1>4. LoadedInv'
  <2> SUFFICES ASSUME NEW w \in Boots, NEW k \in Modules
               PROVE  /\ boot[w] = "down" => module'[w][k] = "absent"
                      /\ module'[w][k] = "loaded" => library'[w][k] = <<hashes[w], k>>
                      /\ boot[w] = "started" => module'[w][k] = "loaded"
    BY <1>a DEF LoadedInv
  <2>1. CASE w = v /\ k = m
    BY <1>c, <1>e, <1>f, <2>1
  <2>2. CASE w # v \/ k # m
    BY <1>0, <1>c, <2>2 DEF LoadedInv
  <2> QED
    BY <2>1, <2>2
<1> QED
  BY <1>1, <1>2, <1>3, <1>4

-----------------------------------------------------------------------------
(***************************************************************************)
(* The whole system.                                                       *)
(***************************************************************************)

InstallerActs(i) ==
  \/ Verify(i) \/ FindExisting(i) \/ Compare(i) \/ FindNothing(i)
  \/ MakeStaging(i) \/ Write(i) \/ Rename(i)
  \/ Compile(i) \/ Crash(i)

ModuleActs(v, m) == OnLoad(v, m) \/ VerifyLibrary(v, m) \/ LoadLibrary(v, m) \/ Activate(v, m)

MachineActs(v) == PowerOn(v) \/ Booted(v) \/ Start(v) \/ StartAgain(v)

\* Nobody reads the destination while it is damaged or built from the sources.
OutsideStep ==
  /\ \A i \in Installers : installer[i] # "comparing"
  /\ \A v \in Boots, m \in Modules : module[v][m] # "verifying"
  /\ Damage \/ \E i \in Installers : Source(i)
  /\ UNCHANGED bootVars

\* The steps, one by one.
LEMMA NextCases ==
  ASSUME Next
  PROVE  \/ \E i \in Installers : InstallerActs(i) /\ UNCHANGED bootVars
         \/ OutsideStep
         \/ \E v \in Boots : MachineActs(v) /\ UNCHANGED installVars
         \/ \E v \in Boots, m \in Modules : ModuleActs(v, m) /\ UNCHANGED installVars
BY Zenon DEF Next, InstallNext, OutsideNext, OutsideStep, InstallerActs, MachineActs, ModuleActs

\* An installer changes a destination only where there was none.
LEMMA InstallerChanges ==
  ASSUME NEW i \in Installers, InstallerActs(i)
  PROVE  destination' # destination => destination = None /\ Rename(i)
BY DEF InstallerActs, Verify, FindExisting, Compare, FindNothing, MakeStaging, Write, Rename,
       MayRename, Compile, Crash

States == {"idle", "verified", "comparing", "staging", "writing", "installed", "compiled",
           "rejected", "raised", "dead"}

\* An installer moves itself only, and succeeds by comparing or by renaming.
LEMMA InstallerGoes ==
  ASSUME LoaderTypeOK, NEW i \in Installers, InstallerActs(i)
  PROVE  /\ \A j \in Installers : j # i => installer'[j] = installer[j]
         /\ installer'[i] = "installed" =>
              installer[i] = "installed" \/ Compare(i) \/ Rename(i)
<1>0. installer \in [Installers -> States]
  BY DEF LoaderTypeOK, TypeOK, States
<1>1. ASSUME NEW state \in States, Goes(i, state)
      PROVE  installer'[i] = state /\ \A j \in Installers : j # i => installer'[j] = installer[j]
  BY <1>0, <1>1 DEF Goes
<1>s. /\ "verified" \in States /\ "rejected" \in States /\ "comparing" \in States
      /\ "installed" \in States /\ "staging" \in States /\ "writing" \in States
      /\ "raised" \in States /\ "compiled" \in States /\ "dead" \in States
  BY DEF States
<1>2. CASE Verify(i)
  <2>1. Goes(i, "verified") \/ Goes(i, "rejected")
    BY <1>2 DEF Verify
  <2> QED
    BY <1>1, <1>s, <2>1
<1>3. CASE FindExisting(i)
  BY <1>1, <1>3, <1>s DEF FindExisting
<1>4. CASE Compare(i)
  <2>1. Goes(i, "rejected") \/ Goes(i, "installed") \/ installer' = installer
    BY <1>4 DEF Compare
  <2> QED
    BY <1>1, <1>4, <1>s, <2>1
<1>5. CASE FindNothing(i)
  BY <1>1, <1>5, <1>s DEF FindNothing
<1>6. CASE MakeStaging(i)
  <2>1. Goes(i, "writing") \/ Goes(i, "raised")
    BY <1>6 DEF MakeStaging
  <2> QED
    BY <1>1, <1>s, <2>1
<1>7. CASE Write(i)
  BY <1>7 DEF Write
<1>8. CASE Rename(i)
  <2>1. Goes(i, "installed") \/ Goes(i, "raised")
    BY <1>8 DEF Rename
  <2> QED
    BY <1>1, <1>8, <1>s, <2>1
<1>9. CASE Compile(i)
  BY <1>1, <1>9, <1>s DEF Compile
<1>10. CASE Crash(i)
  BY <1>1, <1>10, <1>s DEF Crash
<1> QED
  BY <1>2, <1>3, <1>4, <1>5, <1>6, <1>7, <1>8, <1>9, <1>10 DEF InstallerActs

\* Every step of an installer keeps the types and the invariant.
LEMMA InstallerKeeps ==
  ASSUME LoaderTypeOK, Invariant, NEW i \in Installers, InstallerActs(i), UNCHANGED bootVars
  PROVE  LoaderTypeOK' /\ Invariant'
<1>0. TypeOK /\ InstallInv /\ VerifyInv /\ LoadedInv /\ UNCHANGED hashes
  BY DEF LoaderTypeOK, Invariant, bootVars
<1>1. TypeOK' /\ InstallInv'
  BY <1>0, VerifyKeeps, FindExistingKeeps, CompareKeeps, FindNothingKeeps, MakeStagingKeeps,
     WriteKeeps, RenameKeeps, CompileKeeps, CrashKeeps DEF InstallerActs
<1>2. LoaderTypeOK'
  BY <1>1 DEF LoaderTypeOK, bootVars
<1>3. VerifyInv'
  <2>1. \A path, content : Has(destination, path, content) => Has(destination', path, content)
    BY InstallerChanges DEF Has
  <2> QED
    BY <1>0, <2>1 DEF VerifyInv, bootVars
<1>4. LoadedInv'
  BY <1>0 DEF LoadedInv, bootVars
<1> QED
  BY <1>1, <1>2, <1>3, <1>4 DEF Invariant

\* Damage and a build of the sources keep the types and the invariant.
LEMMA OutsideKeeps ==
  ASSUME LoaderTypeOK, Invariant, OutsideStep
  PROVE  LoaderTypeOK' /\ Invariant'
<1>0. /\ TypeOK /\ InstallInv /\ VerifyInv /\ LoadedInv /\ UNCHANGED hashes
      /\ \A i \in Installers : installer[i] # "comparing"
  BY DEF LoaderTypeOK, Invariant, bootVars, OutsideStep
<1>1. TypeOK' /\ InstallInv'
  BY <1>0, SourceKeeps, DamageKeeps DEF OutsideStep
<1>2. LoaderTypeOK'
  BY <1>1 DEF LoaderTypeOK, bootVars, OutsideStep
<1>3. VerifyInv' /\ LoadedInv'
  BY <1>0 DEF VerifyInv, LoadedInv, bootVars, OutsideStep
<1> QED
  BY <1>1, <1>2, <1>3 DEF Invariant

\* What the installers have done does not depend on the machines.
LEMMA InstallKept ==
  ASSUME InstallInv, UNCHANGED installVars, SourceInv'
  PROVE  InstallInv'
<1> USE DEF InstallInv, installVars
<1>1. WantedInv' /\ OwnersInv' /\ DestinationIsWhole'
  BY DEF WantedInv, OwnersInv, DestinationIsWhole
<1>2. StagingInv' /\ CompareInv'
  BY DEF StagingInv, Staged, Installed, CompareInv
<1> QED
  BY <1>1, <1>2

\* Every step of a machine keeps the types and the invariant.
LEMMA LoaderKeeps ==
  ASSUME LoaderTypeOK, Invariant, UNCHANGED installVars,
         \/ \E v \in Boots : MachineActs(v)
         \/ \E v \in Boots, m \in Modules : ModuleActs(v, m)
  PROVE  LoaderTypeOK' /\ Invariant'
<1>1. LoaderTypeOK' /\ SourceInv' /\ VerifyInv' /\ LoadedInv'
  <2>1. ASSUME NEW v \in Boots, MachineActs(v)
        PROVE  LoaderTypeOK' /\ SourceInv' /\ VerifyInv' /\ LoadedInv'
    BY <2>1, PowerOnKeeps, BootedKeeps, StartKeeps, StartAgainKeeps DEF MachineActs
  <2>2. ASSUME NEW v \in Boots, NEW m \in Modules, ModuleActs(v, m)
        PROVE  LoaderTypeOK' /\ SourceInv' /\ VerifyInv' /\ LoadedInv'
    BY <2>2, OnLoadKeeps, VerifyLibraryKeeps, LoadLibraryKeeps, ActivateKeeps DEF ModuleActs
  <2> QED
    BY <2>1, <2>2
<1>2. InstallInv'
  BY <1>1, InstallKept DEF Invariant
<1> QED
  BY <1>1, <1>2 DEF Invariant

\* The initial states have the types and the invariant.
LEMMA InitHolds ==
  ASSUME LoaderInit
  PROVE  LoaderTypeOK /\ Invariant
<1> USE DEF LoaderInit, Init
<1>1. TypeOK
  BY DirectoriesAre, BundleAssumption DEF TypeOK
<1>2. LoaderTypeOK
  BY <1>1 DEF LoaderTypeOK
<1>3. WantedInv /\ StagingInv /\ OwnersInv /\ CompareInv
  BY DEF WantedInv, StagingInv, OwnersInv, CompareInv
<1>4. ~HasReceipt(destination)
  BY DEF HasReceipt, DevelopmentPriv
<1>5. DestinationIsWhole
  BY <1>4 DEF DestinationIsWhole
<1>6. SourceInv
  BY NamesAssumption DEF SourceInv
<1>7. VerifyInv /\ LoadedInv
  BY DEF VerifyInv, LoadedInv
<1> QED
  BY <1>2, <1>3, <1>5, <1>6, <1>7 DEF Invariant, InstallInv

\* The types and the invariant hold for every number of installers, bundles, machines, modules
\* and damages: whatever stages, compares and verifies has the installation it believes to have.
THEOREM InvariantHolds == Spec => [](LoaderTypeOK /\ Invariant)
<1>1. LoaderInit => LoaderTypeOK /\ Invariant
  BY InitHolds
<1>2. LoaderTypeOK /\ Invariant /\ [Next]_vars => (LoaderTypeOK /\ Invariant)'
  <2> SUFFICES ASSUME LoaderTypeOK, Invariant, [Next]_vars
               PROVE  LoaderTypeOK' /\ Invariant'
    OBVIOUS
  <2>1. CASE Next
    BY <2>1, NextCases, InstallerKeeps, OutsideKeeps, LoaderKeeps
  <2>2. CASE UNCHANGED vars
    <3>1. UNCHANGED installVars /\ UNCHANGED bootVars
      BY <2>2 DEF vars
    <3>2. SourceInv' /\ VerifyInv' /\ LoadedInv'
      BY <3>1 DEF Invariant, InstallInv, SourceInv, VerifyInv, LoadedInv, installVars, bootVars
    <3>3. LoaderTypeOK'
      BY <3>1 DEF LoaderTypeOK, TypeOK, installVars, bootVars
    <3> QED
      BY <3>1, <3>2, <3>3, InstallKept DEF Invariant
  <2> QED
    BY <2>1, <2>2
<1> QED
  BY <1>1, <1>2, PTL DEF Spec

-----------------------------------------------------------------------------
(***************************************************************************)
(* What the callers rely on.                                               *)
(***************************************************************************)

\* A destination with a receipt, undamaged, is the installation of one bundle, file for file,
\* however many installers stage, crash and rename (install_bytes).
THEOREM DestinationHolds == Spec => []DestinationIsWhole
<1>1. Invariant => DestinationIsWhole
  BY DEF Invariant, InstallInv
<1> QED
  BY <1>1, InvariantHolds, PTL

\* The application runs on the libraries whose hashes are compiled into its modules, never on
\* the stubs of a deferred or failed module (Aphid.Application.start).
THEOREM StartedHolds == Spec => []StartedIsLoaded
<1>1. Invariant => StartedIsLoaded
  BY DEF Invariant, LoadedInv, StartedIsLoaded
<1> QED
  BY <1>1, InvariantHolds, PTL

\* No installer changes an installation, and one succeeds only over the files its caller pinned,
\* whichever others run, fail or crash (install_bytes, source).
THEOREM InstallsOnceHolds == Spec => InstallsOnce
<1>1. ASSUME LoaderTypeOK, Invariant, [Next]_vars
      PROVE  [/\ HasReceipt(destination) /\ damages' = damages => destination' = destination
              /\ \A i \in Installers : installer[i] # "installed" /\ installer'[i] = "installed" =>
                   \A path \in FilesOf(wanted[i]) \cup {Receipt} :
                      Has(destination', path, Content(wanted[i], path))]_installVars
  <2>0. CASE UNCHANGED installVars
    BY <2>0
  <2>1. ASSUME NEW i \in Installers, InstallerActs(i)
        PROVE  /\ HasReceipt(destination) => destination' = destination
               /\ \A j \in Installers : j # i => installer'[j] = installer[j]
               /\ installer[i] # "installed" /\ installer'[i] = "installed" =>
                    \A path \in FilesOf(wanted[i]) \cup {Receipt} :
                       Has(destination', path, Content(wanted[i], path))
    <3>1. HasReceipt(destination) => destination' = destination
      BY <2>1, InstallerChanges DEF HasReceipt
    <3>2. \A j \in Installers : j # i => installer'[j] = installer[j]
      BY <1>1, <2>1, InstallerGoes
    <3>3. ASSUME installer[i] # "installed", installer'[i] = "installed",
                 NEW path \in FilesOf(wanted[i]) \cup {Receipt}
          PROVE  Has(destination', path, Content(wanted[i], path))
      <4>1. path \in Installed(i) /\ installer \in [Installers -> States]
        BY <1>1, <3>3 DEF Installed, LoaderTypeOK, TypeOK, States
      <4>2. CASE Compare(i)
        <5>1. /\ installer[i] = "comparing" /\ destination' = destination
              /\ \E last \in remaining[i] : IsIntact(i, last) /\ remaining[i] = {last}
          BY <3>3, <4>1, <4>2 DEF Compare, Goes
        <5>2. \A p \in Installed(i) \ remaining[i] : Has(destination, p, Content(wanted[i], p))
          BY <1>1, <5>1 DEF Invariant, InstallInv, CompareInv
        <5> QED
          BY <4>1, <5>1, <5>2 DEF IsIntact
      <4>3. CASE Rename(i)
        <5>1. installer[i] = "writing" /\ remaining[i] = {} /\ destination' = Staged(i)
          BY <3>3, <4>1, <4>3 DEF Rename, IsStaged, Staged, Goes
        <5> QED
          BY <1>1, <4>1, <5>1 DEF Invariant, InstallInv, StagingInv
      <4> QED
        BY <1>1, <2>1, <3>3, <4>2, <4>3, InstallerGoes
    <3> QED
      BY <3>1, <3>2, <3>3
  <2>2. CASE \E i \in Installers : InstallerActs(i)
    BY <2>1, <2>2
  <2>3. CASE OutsideStep
    <3>1. CASE Damage
      <4>1. damages' # damages /\ installer' = installer
        BY <1>1, <3>1, BundleAssumption DEF Damage, LoaderTypeOK, TypeOK
      <4> QED
        BY <4>1
    <3>2. CASE \E i \in Installers : Source(i)
      <4>1. HasReceipt(destination) => destination' = destination
        BY <3>2 DEF Source
      <4>2. ASSUME NEW j \in Installers, installer'[j] = "installed"
            PROVE  installer[j] = "installed"
        BY <1>1, <3>2, <4>2 DEF Source, Goes, LoaderTypeOK, TypeOK
      <4> QED
        BY <4>1, <4>2
    <3> QED
      BY <2>3, <3>1, <3>2 DEF OutsideStep
  <2> QED
    BY <1>1, <2>0, <2>2, <2>3, NextCases DEF vars
<1> QED
  BY <1>1, InvariantHolds, PTL DEF Spec, InstallsOnce

\* A module runs its library only when, at that moment, every library of the closure has the
\* hash that was compiled in, whatever was damaged, lost or reinstalled (verify/2, load_nif).
THEOREM LoadsHolds == Spec => LoadsTheClosure
<1>1. ASSUME LoaderTypeOK, Invariant, [Next]_vars
      PROVE  [\A v \in Boots, m \in Modules :
                (module[v][m] # "loaded" /\ module'[v][m] = "loaded" /\ hashes[v] # "source") =>
                   \A path \in Libraries : Has(destination, path, <<hashes[v], path>>)]_vars
  <2> SUFFICES ASSUME Next, NEW v \in Boots, NEW m \in Modules,
                      module[v][m] # "loaded", module'[v][m] = "loaded", hashes[v] # "source"
               PROVE  \A path \in Libraries : Has(destination, path, <<hashes[v], path>>)
    BY <1>1
  <2>1. module' # module
    OBVIOUS
  <2>2. PICK w \in Boots, k \in Modules : ModuleActs(w, k)
    <3>1. ~UNCHANGED bootVars
      BY <2>1 DEF bootVars
    <3>2. ~OutsideStep
      BY <3>1 DEF OutsideStep
    <3>3. \A u \in Boots : ~MachineActs(u)
      BY <2>1 DEF MachineActs, PowerOn, Booted, Start, StartAgain
    <3> QED
      BY <3>1, <3>2, <3>3, NextCases
  <2>t. module \in [Boots -> [Modules -> {"absent", "verifying", "failed", "loaded"}]]
    BY <1>1 DEF LoaderTypeOK
  <2>3. LoadLibrary(w, k)
    <3>1. ASSUME NEW state, module' = [module EXCEPT ![w][k] = state] PROVE state = "loaded"
      BY <2>t, <3>1
    <3>2. ~LoadNifs(w, k)
      <4>1. module' # [module EXCEPT ![w][k] = "verifying"]
        BY <3>1
      <4> QED
        BY <2>1, <4>1 DEF LoadNifs
    <3>3. ~VerifyLibrary(w, k)
      <4>1. module' # [module EXCEPT ![w][k] = "failed"]
        BY <3>1
      <4> QED
        BY <2>1, <4>1 DEF VerifyLibrary
    <3> QED
      BY <2>2, <3>2, <3>3 DEF ModuleActs, OnLoad, Activate
  <2>4. w = v /\ k = m
    <3>1. PICK state \in {"failed", "loaded"} : module' = [module EXCEPT ![w][k] = state]
      BY <2>3 DEF LoadLibrary
    <3> QED
      BY <2>t, <3>1
  <2>5. module[v][m] = "verifying" /\ unverified[v][m] = {}
    BY <2>3, <2>4 DEF LoadLibrary, ToVerify
  <2> QED
    BY <1>1, <2>5 DEF Invariant, VerifyInv
<1> QED
  BY <1>1, InvariantHolds, PTL DEF Spec, LoadsTheClosure
=============================================================================
