-------------------------------- MODULE Undo --------------------------------
(***************************************************************************)
(* Undo of the scenery editor (src/editor/src/undo.cpp): records of the    *)
(* scenery kept as the files editor_tmp/tmp<n>.bscn.  Editors started in   *)
(* the same directory share them; the lock file is to keep all but the     *)
(* first away.  An editor is one thread (GTK's main loop), so a handler is *)
(* cut only where another process sees the disk or the editor may die.     *)
(*                                                                         *)
(* A scenery is a model value; Pointless is one without points, of which   *)
(* Editor::saveToFile (core/editor.cpp:1066) writes the header only, and   *)
(* which Editor::loadFromFile (923) refuses by an exception that leaves    *)
(* the editor dead: uncaught, or through Publisher::err, which quits.      *)
(*                                                                         *)
(* The system may refuse to remove or to write a file: init does not look  *)
(* at what remove() returns (97), store() only warns (160), and saveToFile *)
(* looks at no state of its stream, so that a file that could not be       *)
(* opened or a full disk goes unnoticed.                                   *)
(***************************************************************************)
EXTENDS Naturals, Sequences, FiniteSets

CONSTANTS
  Editors,    \* the editor processes that use one directory
  Sceneries,  \* what may be edited, Pointless included
  Pointless,  \* a scenery without points
  MaxFiles,   \* MAX_FILES
  LastFile,   \* bound on the numbers of the files
  Missing,    \* no such file
  Torn,       \* the file of an editor that died while it wrote
  Nobody      \* no lock file

ASSUME UndoAssumption ==
  /\ MaxFiles \in Nat /\ MaxFiles >= 2
  /\ LastFile \in Nat
  /\ Pointless \in Sceneries
  /\ Missing \notin Sceneries /\ Torn \notin Sceneries /\ Missing # Torn
  /\ Nobody \notin Editors

VARIABLES
  phase,     \* what each editor is doing
  lockFile,  \* the editor that created editor.lock, or Nobody
  files,     \* the temporary files
  oldest,    \* najstarszy of each editor
  youngest,  \* najmlodszy + 1 of each editor, so that it is never negative
  scenery,   \* what each editor shows
  refused    \* the files whose last removal or writing the system refused,
             \* since the lock was made (a history: the code does not know)

vars == <<phase, lockFile, files, oldest, youngest, scenery, refused>>

Slots == 0..LastFile

(* "without": Undo::init did not get the lock, the buttons stay NULL.      *)
Running == {"init", "clean", "undo", "save", "without"}
Phases  == {"off"} \cup Running
Working == {"clean", "undo", "save"}

TypeOK ==
  /\ phase \in [Editors -> Phases]
  /\ lockFile \in Editors \cup {Nobody}
  /\ files \in [Slots -> Sceneries \cup {Missing, Torn}]
  /\ oldest \in [Editors -> Nat]
  /\ youngest \in [Editors -> Nat]
  /\ scenery \in [Editors -> Sceneries]
  /\ refused \subseteq Slots

Init ==
  /\ phase = [e \in Editors |-> "off"]
  /\ lockFile = Nobody
  /\ files = [n \in Slots |-> Missing]
  /\ oldest = [e \in Editors |-> 0]
  /\ youngest = [e \in Editors |-> 0]
  /\ scenery = [e \in Editors |-> Pointless]
  /\ refused = {}

Loadable == Sceneries \ {Pointless}
-----------------------------------------------------------------------------
(* Undo::init *)

Start(e) ==
  /\ phase[e] = "off"
  /\ phase' = [phase EXCEPT ![e] = "init"]
  /\ oldest' = [oldest EXCEPT ![e] = 0]
  /\ youngest' = [youngest EXCEPT ![e] = 0]
  /\ scenery' = [scenery EXCEPT ![e] = Pointless]
  /\ UNCHANGED <<lockFile, files, refused>>

(* Mutant of CreateLock: open() without O_EXCL, or a test before it.       *)
OpenLock(e) ==
  /\ phase[e] = "init"
  /\ phase' = [phase EXCEPT ![e] = "clean"]
  /\ lockFile' = e
  /\ refused' = {}
  /\ UNCHANGED <<files, oldest, youngest, scenery>>

(* open(O_CREAT | O_EXCL): there is now a lock file and there was none, or *)
(* there was one or it cannot be created ("Undo ... will be disabled").     *)
CreateLock(e) ==
  /\ phase[e] = "init"
  /\ \/ /\ lockFile = Nobody
        /\ lockFile' = e
        /\ phase' = [phase EXCEPT ![e] = "clean"]
        /\ refused' = {}
     \/ /\ phase' = [phase EXCEPT ![e] = "without"]
        /\ UNCHANGED <<lockFile, refused>>
  /\ UNCHANGED <<files, oldest, youngest, scenery>>

(* remove() of file n, which may fail and leave it.                        *)
Remove(n) ==
  \/ /\ files' = [files EXCEPT ![n] = Missing]
     /\ refused' = refused \ {n}
  \/ /\ UNCHANGED files
     /\ refused' = refused \cup {n}

(* The files an earlier editor left are removed one by one, each once...   *)
RemoveLeftover(e, n) ==
  /\ phase[e] = "clean"
  /\ files[n] # Missing /\ n \notin refused
  /\ Remove(n)
  /\ UNCHANGED <<phase, lockFile, oldest, youngest, scenery>>

(* ...and the record button is enabled, whether or not they are gone.      *)
EndInit(e) ==
  /\ phase[e] = "clean"
  /\ \A n \in Slots : files[n] = Missing \/ n \in refused
  /\ phase' = [phase EXCEPT ![e] = "undo"]
  /\ UNCHANGED <<lockFile, files, oldest, youngest, scenery, refused>>
-----------------------------------------------------------------------------
(* The work of the user *)

Edit(e) ==
  /\ phase[e] \in {"undo", "without"}
  /\ \E s \in Sceneries : scenery' = [scenery EXCEPT ![e] = s]
  /\ UNCHANGED <<phase, lockFile, files, oldest, youngest, refused>>

Stored(e) == youngest[e] - oldest[e]

(* Mutant of Store: > for >=.                                              *)
StoreOneMore(e) ==
  /\ phase[e] = "undo"
  /\ youngest[e] <= LastFile
  /\ phase' = [phase EXCEPT ![e] = "save"]
  /\ IF Stored(e) > MaxFiles
     THEN /\ Remove(oldest[e])
          /\ oldest' = [oldest EXCEPT ![e] = @ + 1]
     ELSE UNCHANGED <<files, oldest, refused>>
  /\ UNCHANGED <<lockFile, youngest, scenery>>

(* Undo::store until the scenery is saved.  The oldest record is counted   *)
(* off even if its file could not be removed (160-163).                    *)
Store(e) ==
  /\ phase[e] = "undo"
  /\ youngest[e] <= LastFile
  /\ phase' = [phase EXCEPT ![e] = "save"]
  /\ IF Stored(e) >= MaxFiles
     THEN /\ Remove(oldest[e])
          /\ oldest' = [oldest EXCEPT ![e] = @ + 1]
     ELSE UNCHANGED <<files, oldest, refused>>
  /\ UNCHANGED <<lockFile, youngest, scenery>>

(* saveToFile(tmp_name(najmlodszy+1)): the scenery is written; or the      *)
(* file could not be opened or filled, of which nobody hears; or an        *)
(* exception makes it FALSE and the file is what was written until then.   *)
Save(e) ==
  /\ phase[e] = "save"
  /\ phase' = [phase EXCEPT ![e] = "undo"]
  /\ LET n == youngest[e] IN
     \/ /\ files' = [files EXCEPT ![n] = scenery[e]]
        /\ refused' = refused \ {n}
        /\ youngest' = [youngest EXCEPT ![e] = @ + 1]
     \/ /\ files' = files \/ files' = [files EXCEPT ![n] = Torn]
        /\ refused' = refused \cup {n}
        /\ youngest' = [youngest EXCEPT ![e] = @ + 1]
     \/ /\ \/ UNCHANGED <<files, refused>>
           \/ /\ files' = [files EXCEPT ![n] = Torn]
              /\ refused' = refused \ {n}
        /\ UNCHANGED youngest
  /\ UNCHANGED <<lockFile, oldest, scenery>>

(* Mutant of Perform: the number goes down before the file is read.        *)
PerformOlder(e) ==
  /\ phase[e] = "undo"
  /\ Stored(e) > 1
  /\ files[youngest[e] - 2] \in Loadable
  /\ scenery' = [scenery EXCEPT ![e] = files[youngest[e] - 2]]
  /\ youngest' = [youngest EXCEPT ![e] = @ - 1]
  /\ UNCHANGED <<phase, lockFile, files, oldest, refused>>

(* Mutant of Perform: neither najstarszy nor the file is looked at.        *)
PerformUnchecked(e) ==
  /\ phase[e] = "undo"
  /\ youngest[e] > 0
  /\ scenery' = [scenery EXCEPT ![e] = files[youngest[e] - 1]]
  /\ youngest' = [youngest EXCEPT ![e] = @ - 1]
  /\ UNCHANGED <<phase, lockFile, files, oldest, refused>>

(* Undo::perform.  The file of a record taken back is not removed.  Of a   *)
(* torn file anything may be loaded: the reads past its end fail unseen.   *)
Perform(e) ==
  /\ phase[e] = "undo"
  /\ Stored(e) > 0
  /\ \E s \in Sceneries :
       /\ \/ files[youngest[e] - 1] = Torn
          \/ files[youngest[e] - 1] = s /\ s \in Loadable
       /\ scenery' = [scenery EXCEPT ![e] = s]
  /\ youngest' = [youngest EXCEPT ![e] = @ - 1]
  /\ UNCHANGED <<phase, lockFile, files, oldest, refused>>

(* loadFromFile refuses the file, or cannot read it.                       *)
PerformFails(e) ==
  /\ phase[e] = "undo"
  /\ Stored(e) > 0
  /\ phase' = [phase EXCEPT ![e] = "off"]
  /\ UNCHANGED <<lockFile, files, oldest, youngest, scenery, refused>>
-----------------------------------------------------------------------------
(* Ends *)

(* Mutant of Quit: clear_lock() does not look whether init made the lock.  *)
QuitUnlocking(e) ==
  /\ phase[e] \in {"undo", "without"}
  /\ phase' = [phase EXCEPT ![e] = "off"]
  /\ lockFile' = Nobody
  /\ UNCHANGED <<files, oldest, youngest, scenery, refused>>

(* clearLock_and_quit: only the editor whose init succeeded removes it,    *)
(* which may fail (183) and leave it.                                      *)
Quit(e) ==
  /\ phase[e] \in {"undo", "without"}
  /\ phase' = [phase EXCEPT ![e] = "off"]
  /\ \/ phase[e] = "undo" /\ lockFile' = Nobody
     \/ UNCHANGED lockFile
  /\ UNCHANGED <<files, oldest, youngest, scenery, refused>>

(* on_export_mi_activate quits the main loop and leaves the lock file.     *)
Export(e) ==
  /\ phase[e] \in {"undo", "without"}
  /\ phase' = [phase EXCEPT ![e] = "off"]
  /\ UNCHANGED <<lockFile, files, oldest, youngest, scenery, refused>>

(* The editor is killed; a file it was writing may be left torn.           *)
Crash(e) ==
  /\ phase[e] \in Running
  /\ phase' = [phase EXCEPT ![e] = "off"]
  /\ \/ phase[e] = "save" /\ files' = [files EXCEPT ![youngest[e]] = Torn]
     \/ UNCHANGED files
  /\ UNCHANGED <<lockFile, oldest, youngest, scenery, refused>>

(* Nobody but the user removes the lock file of an editor that has died.   *)
RemoveStaleLock ==
  /\ lockFile # Nobody
  /\ phase[lockFile] \notin Working
  /\ lockFile' = Nobody
  /\ UNCHANGED <<phase, files, oldest, youngest, scenery, refused>>
-----------------------------------------------------------------------------
Next ==
  \/ \E e \in Editors :
       \/ Start(e) \/ CreateLock(e)
       \/ \E n \in Slots : RemoveLeftover(e, n)
       \/ EndInit(e) \/ Edit(e)
       \/ Store(e) \/ Save(e) \/ Perform(e) \/ PerformFails(e)
       \/ Quit(e) \/ Export(e) \/ Crash(e)
  \/ RemoveStaleLock

Spec == Init /\ [][Next]_vars
-----------------------------------------------------------------------------
(* Properties *)

(* Of the editors in one directory at most one cleans, writes or reads the *)
(* temporary files, whoever starts, quits or dies in between: the lock     *)
(* file is created exclusively (51) and only its maker removes it (178).   *)
OneEditorAtWork ==
  \A e, f \in Editors :
    phase[e] \in Working /\ phase[f] \in Working => e = f

(* The records between najstarszy and najmlodszy are on the disk, written  *)
(* to their end, but for those the system would not take; and although     *)
(* undo removes no file, there are, besides the files the system would not *)
(* remove or write, never more than MAX_FILES once init has cleaned up.    *)
RecordsOnDisk ==
  \A e \in Editors : phase[e] \in {"undo", "save"} =>
    /\ \A n \in oldest[e]..(youngest[e] - 1) :
         n \notin refused => files[n] \in Sceneries
    /\ Cardinality({n \in Slots \ refused : files[n] # Missing}) <= MaxFiles

(* The files an editor leaves when it dies - "look for earlier temporary   *)
(* files", says perform() - stay as they are until the user has removed    *)
(* the lock file: no other editor cleans or overwrites them.               *)
LeftoversKept ==
  [][files' # files =>
       /\ lockFile # Nobody
       /\ phase[lockFile] \in Working
       /\ \A e \in Editors \ {lockFile} :
            phase'[e] = phase[e] /\ scenery'[e] = scenery[e]]_vars

(* Numbers, files and buttons work as one bounded stack of sceneries.      *)
Holders == {e \in Editors : phase[e] \in {"undo", "save"}}

Holder == IF Holders = {} THEN Nobody ELSE CHOOSE e \in Holders : TRUE

(* A record the system would not take is lost.                             *)
Recorded(n) == IF n \in refused THEN Torn ELSE files[n]

Records(e) == [i \in 1..Stored(e) |-> Recorded(oldest[e] + i - 1)]

Stack == IF Holders = {} THEN <<>> ELSE Records(Holder)

Undoing == INSTANCE UndoStack WITH holder <- Holder, stack <- Stack, Lost <- Torn
UndoSpec == Undoing!Spec
=============================================================================
