------------------------ MODULE CompressWizardProofs ------------------------
(***************************************************************************)
(* Theorems about the dialogs of the compress command: they hold for every *)
(* set of formats and every walk through the dialogs, however long.        *)
(***************************************************************************)
EXTENDS CompressWizard, TLAPS

Steps == {0, 1, 2, 3, 4, 5, 56, 57, 6, 7}

\* Step 5 is entered, or re-entered by going back, only after a "Yes", and a
\* "Yes" to encryption has turned header encryption on for good.
YesInv ==
  /\ doEncrypt => encryptHeaders
  /\ step = 5 => encryptHeaders
  /\ password # None => encryptHeaders

\* The dialogs keep YesInv, also when the user walks back and forth.
THEOREM YesInvHolds == Spec => []YesInv
<1>1. Init => YesInv
  BY DEF Init, YesInv
<1>2. YesInv /\ [Next]_vars => YesInv'
  <2> SUFFICES ASSUME YesInv, [Next]_vars PROVE YesInv'
    OBVIOUS
  <2> USE DEF YesInv, Keep, Skip, Quit, Back, LeaveOr
  <2>1. CASE AskFormat
    BY <2>1 DEF AskFormat, values
  <2>2. CASE AskLevel
    BY <2>2 DEF AskLevel, AfterLevel, values
  <2>3. CASE AskVolume
    BY <2>3 DEF AskVolume, values
  <2>4. CASE AskEncrypt
    <3>1. ASSUME NEW yes \in BOOLEAN, step = 4, format \in SupportsEncryption,
                 doEncrypt' = yes, saidNo' = ~yes,
                 encryptHeaders' = (yes \/ encryptHeaders),
                 step' = IF yes THEN 5 ELSE AfterEncryption,
                 UNCHANGED <<format, volumeSize, password, recoveryPercent,
                             recoveryVolumes, wentBack>>
          PROVE  YesInv'
      <4>1. CASE yes = TRUE
        BY <3>1, <4>1
      <4>2. CASE yes = FALSE
        <5>1. ~doEncrypt' /\ (encryptHeaders => encryptHeaders')
          BY <3>1, <4>2, Zenon
        <5>2. step' \in {6, 56}
          BY <3>1, <4>2, SMT DEF AfterEncryption
        <5> QED
          BY <3>1, <5>1, <5>2
      <4> QED
        BY <4>1, <4>2
    <3>2. ASSUME step = 4, LeaveOr(IF format \in Splittable THEN 3 ELSE 2)
          PROVE  YesInv'
      BY <3>2 DEF values
    <3> QED
      BY <2>4, <3>1, <3>2 DEF AskEncrypt, promptEncryptWizard
  <2>5. CASE AskPassword
    BY <2>5 DEF AskPassword, AfterEncryption, values
  <2>6. CASE AskRecord
    BY <2>6 DEF AskRecord, values
  <2>7. CASE AskVolumes
    BY <2>7 DEF AskVolumes, values
  <2>8. CASE SaveSplit
    BY <2>8 DEF SaveSplit, BackFromSave, values
  <2>9. CASE Save
    BY <2>9 DEF Save, values
  <2>10. CASE SkipLevel
    BY <2>10 DEF SkipLevel, AfterLevel, values
  <2>11. CASE SkipEncrypt
    BY <2>11 DEF SkipEncrypt, AfterEncryption, values
  <2>12. CASE UNCHANGED vars
    BY <2>12 DEF vars, values
  <2>13. CASE Done
    BY <2>12, <2>13 DEF Done
  <2> QED
    BY <2>1, <2>2, <2>3, <2>4, <2>5, <2>6, <2>7, <2>8, <2>9, <2>10, <2>11, <2>12,
       <2>13 DEF Next
<1> QED
  BY <1>1, <1>2, PTL DEF Spec

\* HeadersHidden (compress.ts:443): whoever ends up with a password for a RAR archive hides its
\* file names, in whatever order the dialogs were answered.
THEOREM HeadersAreHidden == Spec => []HeadersHidden
<1>1. YesInv => HeadersHidden
  BY DEF YesInv, HeadersHidden, Compressing
<1> QED
  BY <1>1, YesInvHolds, PTL

----------------------------------------------------------------------------
\* What is known at each step by somebody who has not gone back.

Blank == volumeSize = None /\ password = None /\ recoveryVolumes = 0 /\ ~saidNo
SplitAgrees == volumeSize # None => format \in Splittable
SecretAgrees == password # None => format \in SupportsEncryption /\ ~saidNo

StraightInv ==
  /\ step \in Steps
  /\ ~wentBack =>
       /\ step \in {1, 2, 3} => Blank
       /\ step = 3 => format \in Splittable
       /\ step \in {4, 5} => SplitAgrees /\ password = None /\ recoveryVolumes = 0 /\ ~saidNo
       /\ step = 5 => format \in SupportsEncryption
       /\ step \in {56, 57} => format = "rar" /\ SecretAgrees
       /\ step = 56 => recoveryVolumes = 0
       /\ step = 57 => volumeSize # None
       /\ step \in {6, 7} =>
            /\ SplitAgrees /\ SecretAgrees
            /\ recoveryVolumes > 0 => format = "rar" /\ volumeSize # None

\* The dialogs keep StraightInv: going back switches its claims off for good.
THEOREM StraightInvHolds == Spec => []StraightInv
<1> USE DEF Steps, Blank, SplitAgrees, SecretAgrees
<1>1. Init => StraightInv
  BY DEF Init, StraightInv
<1>2. StraightInv /\ [Next]_vars => StraightInv'
  <2> SUFFICES ASSUME StraightInv, [Next]_vars PROVE StraightInv'
    OBVIOUS
  <2> USE DEF StraightInv, Keep, Skip, Quit, Back, LeaveOr, Splittable, SupportsEncryption
  <2>1. CASE AskFormat
    BY <2>1 DEF AskFormat, values
  <2>2. CASE AskLevel
    BY <2>2 DEF AskLevel, AfterLevel, values
  <2>3. CASE AskVolume
    BY <2>3 DEF AskVolume, values
  <2>4. CASE AskEncrypt
    <3>1. ASSUME NEW yes \in BOOLEAN, step = 4, format \in SupportsEncryption,
                 doEncrypt' = yes, saidNo' = ~yes,
                 encryptHeaders' = (yes \/ encryptHeaders),
                 step' = IF yes THEN 5 ELSE AfterEncryption,
                 UNCHANGED <<format, volumeSize, password, recoveryPercent,
                             recoveryVolumes, wentBack>>
          PROVE  StraightInv'
      <4>1. CASE yes = TRUE
        <5>1. ~saidNo' /\ step' = 5
          BY <3>1, <4>1, Zenon
        <5> QED
          BY <3>1, <5>1
      <4>2. CASE yes = FALSE
        <5>1. step' \in {6, 56} /\ (step' = 56 => format = "rar")
          BY <3>1, <4>2, SMT DEF AfterEncryption
        <5> QED
          BY <3>1, <5>1
      <4> QED
        BY <4>1, <4>2
    <3>2. ASSUME step = 4, LeaveOr(IF format \in Splittable THEN 3 ELSE 2)
          PROVE  StraightInv'
      BY <3>2 DEF values
    <3> QED
      BY <2>4, <3>1, <3>2 DEF AskEncrypt, promptEncryptWizard
  <2>5. CASE AskPassword
    BY <2>5 DEF AskPassword, AfterEncryption, values
  <2>6. CASE AskRecord
    BY <2>6 DEF AskRecord, values
  <2>7. CASE AskVolumes
    BY <2>7 DEF AskVolumes, values
  <2>8. CASE SaveSplit
    BY <2>8 DEF SaveSplit, BackFromSave, values
  <2>9. CASE Save
    BY <2>9 DEF Save, values
  <2>10. CASE SkipLevel
    BY <2>10 DEF SkipLevel, AfterLevel, values
  <2>11. CASE SkipEncrypt
    BY <2>11 DEF SkipEncrypt, AfterEncryption, values
  <2>12. CASE UNCHANGED vars
    BY <2>12 DEF vars, values
  <2>13. CASE Done
    BY <2>12, <2>13 DEF Done
  <2> QED
    BY <2>1, <2>2, <2>3, <2>4, <2>5, <2>6, <2>7, <2>8, <2>9, <2>10, <2>11, <2>12,
       <2>13 DEF Next
<1> QED
  BY <1>1, <1>2, PTL DEF Spec

\* StraightAnswersAgree: who never goes back gets volumes, a password and recovery volumes only where
\* they were asked, for every set of formats.
THEOREM StraightAnswersHold == Spec => []StraightAnswersAgree
<1>1. StraightInv => StraightAnswersAgree
  BY DEF StraightInv, StraightAnswersAgree, Compressing, SplitAgrees, SecretAgrees
<1> QED
  BY <1>1, StraightInvHolds, PTL
=============================================================================
