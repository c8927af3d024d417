----------------------------- MODULE FileStore ------------------------------
(***************************************************************************)
(* What exfat_write_file promises to its caller (kernel.cpp:872-885): when *)
(* it succeeds for a name that was not listed, the file is there as a      *)
(* whole and nothing else has changed; when it fails, or the power does,   *)
(* nothing that was listed has changed.  There are no clusters, no bitmap, *)
(* no entries and no order of writes here: ExfatVolume has them and        *)
(* implements this.  A call that failed may leave something under names    *)
(* that were not listed; it was not promised.                              *)
(***************************************************************************)
CONSTANTS Names, OldName, None

VARIABLES files,     \* what is read under each name that is listed
          promised,  \* what calls returned 0 for; None: nothing
          asked      \* the call in progress: name and text
vars == <<files, promised, asked>>

Init == /\ DOMAIN files = {OldName} /\ asked = <<>>
        /\ promised = [nm \in Names |-> IF nm = OldName THEN files[nm] ELSE None]

Ask == /\ asked = <<>> /\ asked' # <<>> /\ asked'[1] \in Names
       /\ UNCHANGED <<files, promised>>

(* The call succeeds.  A second file of a name is never found.             *)
Return ==
  LET nm == asked[1]
      file == <<asked[2]>>
  IN  /\ asked # <<>> /\ asked' = <<>>
      /\ IF nm \in DOMAIN files THEN UNCHANGED <<files, promised>>
         ELSE /\ files' = [n \in DOMAIN files \cup {nm} |->
                             IF n = nm THEN file ELSE files[n]]
              /\ promised' = [promised EXCEPT ![nm] = file]

(* The call failed, the power did, or it returned 0 for a group that       *)
(* exfat_find does not find under the name: ExfatVolume says when.         *)
GiveUp ==
  /\ asked # <<>> /\ asked' = <<>> /\ UNCHANGED promised
  /\ DOMAIN files \subseteq DOMAIN files'
  /\ \A nm \in DOMAIN files : files'[nm] = files[nm]

Next == Ask \/ Return \/ GiveUp

Spec == Init /\ [][Next]_vars

=============================================================================
