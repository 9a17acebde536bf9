---------------------------- MODULE ResultCache ----------------------------
(***************************************************************************)
(* The directories of the result cache (ResultCache): for each key the     *)
(* stored entry and the temporary directory a put prepares it in.  get and *)
(* put are sequences of file operations that other threads, or the death   *)
(* of the process, may come between; who performs which, and when, is in   *)
(* the modules that use this one.                                          *)
(***************************************************************************)
EXTENDS TLC, Functions

CONSTANT None  \* a file or directory that is not there

VARIABLES
  entry,  \* entry[k]: <key>, as far as it exists
  temp    \* temp[k]: <key>.tmp, as far as it exists

\* A directory holds artifacts by their path, and meta.json, which names the
\* artifacts and the model.
EmptyDirectory == [files |-> <<>>, meta |-> None]
Meta(files, model) == [names |-> DOMAIN files, model |-> model]

NoDirectories == <<>>
Directory(dirs, k) == IF k \in DOMAIN dirs THEN dirs[k] ELSE EmptyDirectory
With(f, k, value) == [x \in DOMAIN f \cup {k} |-> IF x = k THEN value ELSE f[x]]
Without(dirs, k) == Restrict(dirs, DOMAIN dirs \ {k})

CacheInit == entry = NoDirectories /\ temp = NoDirectories
----------------------------------------------------------------------------
(* get.                                                                    *)

MetaOf(k) == Directory(entry, k).meta
ArtifactsOf(k) == Directory(entry, k).files
----------------------------------------------------------------------------
(* put.                                                                    *)

\* A leftover is removed; the directory is made afresh.
ClearTemp(k) == temp' = With(temp, k, EmptyDirectory) /\ UNCHANGED entry

\* mkdir(parents=True) makes the directory again if another put removed it.
StoreArtifact(k, p, content) ==
  /\ temp' = With(temp, k, [Directory(temp, k) EXCEPT !.files = With(@, p, content)])
  /\ UNCHANGED entry

\* meta.json is written without a mkdir.
StoreMeta(k, meta) ==
  /\ k \in DOMAIN temp
  /\ temp' = [temp EXCEPT ![k].meta = meta]
  /\ UNCHANGED entry

\* rmtree of the entry: some of it goes before the rest does.
Erode(k) ==
  /\ k \in DOMAIN entry
  /\ \E kept \in SUBSET DOMAIN entry[k].files, meta \in {entry[k].meta, None} :
       /\ <<kept, meta>> # <<DOMAIN entry[k].files, entry[k].meta>>
       /\ entry' = [entry EXCEPT ![k] = [files |-> Restrict(@.files, kept), meta |-> meta]]
  /\ UNCHANGED temp

DropEntry(k) ==
  /\ k \in DOMAIN entry
  /\ entry' = Without(entry, k)
  /\ UNCHANGED temp

\* rename fails when there is nothing to rename, or an entry in its way.
MoveIn(k) ==
  /\ k \in DOMAIN temp \ DOMAIN entry
  /\ entry' = With(entry, k, temp[k])
  /\ temp' = Without(temp, k)

\* except OSError.
Abandon(k) == temp' = Without(temp, k) /\ UNCHANGED entry
============================================================================
