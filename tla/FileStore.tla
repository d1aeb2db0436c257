----------------------------- MODULE FileStore -----------------------------
(***************************************************************************)
(* Saving files (ryx-rs/src/storage.rs): a save asks for a free name, with a *)
(* random suffix if its own is taken, and then writes under the name it      *)
(* chose.  Both built-in storages keep a map from names to bytes and let     *)
(* other saves run between the question and the write.                      *)
(*                                                                         *)
(* A name is its stem and the suffix appended to it, "" for none.            *)
(***************************************************************************)
EXTENDS Naturals, FiniteSets

CONSTANTS
  Saver,       \* tasks that save files
  Stem,        \* the names they ask for
  Outside,     \* those that are absolute or contain ".."
  Suffix,      \* what random_suffix may return
  MaxTries,    \* the suffixes tried before the unchecked one; 100 in the code
  MaxContent   \* bound on the number of saves

ASSUME StorageAssumption ==
  Outside \subseteq Stem /\ "" \notin Suffix /\ MaxTries \in Nat /\ MaxContent \in Nat

VARIABLES
  files,    \* name -> content; a content is the number of the save it came with
  saves,    \* the number of saves begun
  saving    \* Saver -> the save it is in

storeVars == <<files, saves, saving>>

Quiet == [at |-> "idle"]
Name(stem, suffix) == [stem |-> stem, suffix |-> suffix]

\* exists: an unsafe name is an error, which the caller takes for free
Exists(name) == name.stem \notin Outside /\ name \in DOMAIN files

\* save, up to the first question
Begin(s, stem) ==
  /\ saving[s] = Quiet /\ saves < MaxContent
  /\ saves' = saves + 1
  /\ saving' = [saving EXCEPT ![s] = [at |-> "asking", name |-> Name(stem, ""), tries |-> 0,
                                      content |-> saves', since |-> {}]]
  /\ UNCHANGED files

\* Mutation: a suffixed name is not asked about
AskedOnce(save, suffix) ==
  IF ~Exists(save.name) THEN [save EXCEPT !.at = "writing"]
  ELSE [save EXCEPT !.at = "writing", !.name = Name(save.name.stem, suffix)]

\* get_available_name: one question, and the next candidate if the name is
\* taken; the one after MaxTries is not asked about
Answered(save, suffix) ==
  IF ~Exists(save.name) THEN [save EXCEPT !.at = "writing"]
  ELSE [at |-> IF save.tries = MaxTries THEN "writing" ELSE "asking",
        name |-> Name(save.name.stem, suffix), tries |-> save.tries + 1,
        content |-> save.content, since |-> save.since]

AskFree(s) ==
  /\ saving[s].at = "asking"
  /\ \E suffix \in Suffix : saving' = [saving EXCEPT ![s] = Answered(saving[s], suffix)]
  /\ UNCHANGED <<files, saves>>

\* The write, if safe_path lets it; a disk may refuse it too.
Write(s) ==
  /\ saving[s].at = "writing"
  /\ LET name == saving[s].name
         into == [n \in DOMAIN files \cup {name} |->
                    IF n = name THEN saving[s].content ELSE files[n]]
     IN \/ /\ name.stem \notin Outside
           /\ files' = into
           /\ saving' = [t \in Saver |->
                IF t = s THEN Quiet
                ELSE IF saving[t].at = "writing"
                THEN [saving[t] EXCEPT !.since = @ \cup {saving[s].content}] ELSE saving[t]]
        \/ /\ UNCHANGED files
           /\ saving' = [saving EXCEPT ![s] = Quiet]
  /\ UNCHANGED saves

\* delete: a file that is not there is no error
Delete(name) ==
  /\ files' = [n \in DOMAIN files \ {name} |-> files[n]]
  /\ UNCHANGED <<saves, saving>>

Init ==
  /\ files = [n \in {} |-> 0]
  /\ saves = 0
  /\ saving = [s \in Saver |-> Quiet]

Next ==
  \/ \E s \in Saver, stem \in Stem : Begin(s, stem)
  \/ \E s \in Saver : AskFree(s) \/ Write(s)
  \/ \E name \in DOMAIN files : Delete(name)

Spec == Init /\ [][Next]_storeVars

-----------------------------------------------------------------------------
\* A save never replaces a file that was there when it chose its name: a file
\* is only overwritten by a save that chose the same free name before the file
\* was written, or that had drawn taken suffixes to the last.  The trait says
\* "an existing file is never silently overwritten" (storage.rs 40-42, 71-86).
FilesKept ==
  [][\A n \in DOMAIN files : n \in DOMAIN files' /\ files'[n] # files[n] =>
       \E s \in Saver : /\ saving[s].at = "writing" /\ saving[s].name = n
                        /\ \/ files[n] \in saving[s].since
                           \/ saving[s].tries > MaxTries]_storeVars
=============================================================================
