--------------------------- MODULE CompressWizard ---------------------------
(***************************************************************************)
(* The dialogs of the compress command (commands/compress.ts): a loop over *)
(* numbered steps that the user can answer, leave, or walk back.  What is  *)
(* answered is kept in local variables that outlive a step taken back.     *)
(***************************************************************************)
EXTENDS Integers

CONSTANT Formats   \* the formats offered

VARIABLES
  step,      \* 1 format ... 6 save as in the code; 7 = compressing, 0 = left
  format, volumeSize, doEncrypt, password, encryptHeaders,
  recoveryPercent, recoveryVolumes,
  saidNo,    \* was "No encryption" the last answer about encryption?
  wentBack   \* has the user gone back?

values == <<format, volumeSize, doEncrypt, password, encryptHeaders,
            recoveryPercent, recoveryVolumes>>
vars == <<step, values, saidNo, wentBack>>

None == "none"
Splittable == {"7z", "zip", "rar"}
SupportsEncryption == {"7z", "zip", "rar"}
SingleSpeed == {"tar.sz", "tar.lz4"}

ASSUME WizardAssumption == Formats \subseteq STRING /\ None \notin Formats

Init ==
  /\ step = 1
  /\ format = None /\ volumeSize = None /\ doEncrypt = FALSE /\ password = None
  /\ encryptHeaders = FALSE /\ recoveryPercent = 0 /\ recoveryVolumes = 0
  /\ saidNo = FALSE /\ wentBack = FALSE

\* What the prompts may return; a size, a percentage and a count stand for all.
promptFormatWizard == Formats
promptVolumeWizard == {None, "100m"}
promptEncryptWizard == BOOLEAN
promptPasswordWizard == {None, "secret"}
promptRecovery == {0, 5}

Keep(kept) == UNCHANGED <<kept, saidNo, wentBack>>
\* Escape ends the command.  The Back button of a prompt, or of the input box
\* for a custom value behind it, leads to the given step.
Quit == step' = 0 /\ Keep(values)
Back(to) == step' = to /\ wentBack' = TRUE /\ UNCHANGED <<values, saidNo>>
LeaveOr(back) == Quit \/ Back(back)
Skip(to) == step' = to /\ Keep(values)

AfterEncryption == IF format = "rar" THEN 56 ELSE 6

AskFormat ==
  /\ step = 1
  /\ \/ /\ \E f \in promptFormatWizard : format' = f
        /\ step' = 2
        /\ Keep(<<volumeSize, doEncrypt, password, encryptHeaders, recoveryPercent,
                  recoveryVolumes>>)
     \/ Quit

AfterLevelAlways == 3
AfterLevel == IF format \in Splittable THEN 3 ELSE 4
AskLevel == step = 2 /\ format \notin SingleSpeed /\ (Skip(AfterLevel) \/ LeaveOr(1))
SkipLevel == step = 2 /\ format \in SingleSpeed /\ Skip(AfterLevel)

AskVolume ==
  /\ step = 3
  /\ \/ /\ \E v \in promptVolumeWizard : volumeSize' = v
        /\ step' = 4
        /\ Keep(<<format, doEncrypt, password, encryptHeaders, recoveryPercent,
                  recoveryVolumes>>)
     \/ LeaveOr(2)

\* Yes forces the encryption of RAR headers.  No leaves the password alone.
AskEncryptAnyHeaders ==
  /\ step = 4 /\ format \in SupportsEncryption
  /\ \/ /\ \E yes \in promptEncryptWizard :
             doEncrypt' = yes /\ saidNo' = ~yes /\ step' = IF yes THEN 5 ELSE AfterEncryption
        /\ UNCHANGED <<format, volumeSize, password, encryptHeaders, recoveryPercent,
                       recoveryVolumes, wentBack>>
     \/ LeaveOr(AfterLevel)
AskEncrypt ==
  /\ step = 4 /\ format \in SupportsEncryption
  /\ \/ /\ \E yes \in promptEncryptWizard :
             /\ doEncrypt' = yes
             /\ saidNo' = ~yes
             /\ encryptHeaders' = (yes \/ encryptHeaders)
             /\ step' = IF yes THEN 5 ELSE AfterEncryption
        /\ UNCHANGED <<format, volumeSize, password, recoveryPercent, recoveryVolumes,
                       wentBack>>
     \/ LeaveOr(IF format \in Splittable THEN 3 ELSE 2)
SkipEncrypt == step = 4 /\ format \notin SupportsEncryption /\ Skip(AfterEncryption)

AskPassword ==
  /\ step = 5
  /\ \/ /\ \E p \in promptPasswordWizard : password' = p
        /\ step' = AfterEncryption
        /\ Keep(<<format, volumeSize, doEncrypt, encryptHeaders, recoveryPercent,
                  recoveryVolumes>>)
     \/ LeaveOr(4)

\* The recovery record; recovery volumes for a split archive only.
AskRecord ==
  /\ step = 56
  /\ \/ /\ \E p \in promptRecovery : recoveryPercent' = p
        /\ step' = IF volumeSize # None THEN 57 ELSE 6
        /\ Keep(<<format, volumeSize, doEncrypt, password, encryptHeaders, recoveryVolumes>>)
     \/ LeaveOr(IF password # None THEN 5 ELSE 4)
AskVolumes ==
  /\ step = 57
  /\ \/ /\ \E n \in promptRecovery : recoveryVolumes' = n
        /\ step' = 6
        /\ Keep(<<format, volumeSize, doEncrypt, password, encryptHeaders, recoveryPercent>>)
     \/ LeaveOr(56)

\* A split archive is named in a prompt with a Back button and gets a folder of
\* its own; another one is named in the save dialog, which can only be left.
BackFromSave ==
  IF format = "rar" THEN 57
  ELSE IF doEncrypt THEN 5 ELSE IF format \in SupportsEncryption THEN 4 ELSE 3
SaveSplit == step = 6 /\ volumeSize # None /\ (Skip(7) \/ LeaveOr(BackFromSave))
Save == step = 6 /\ volumeSize = None /\ (Skip(7) \/ Quit)

Over == step \in {0, 7}
Done == Over /\ UNCHANGED vars

Next ==
  \/ AskFormat \/ AskLevel \/ AskVolume \/ AskEncrypt \/ AskPassword \/ AskRecord
  \/ AskVolumes \/ SaveSplit \/ Save
  \/ SkipLevel \/ SkipEncrypt \/ Done

Spec == Init /\ [][Next]_vars

----------------------------------------------------------------------------
\* Properties of the options the compression starts with.

Compressing == step = 7

\* However the user walked through the dialogs, a RAR archive with a password
\* hides its file names (compress.ts:443).
HeadersHidden == Compressing /\ format = "rar" /\ password # None => encryptHeaders

\* A user who never goes back gets what the chosen format supports and what was
\* answered: volumes, a password and recovery volumes only where they were asked.
StraightAnswersAgree ==
  Compressing /\ ~wentBack =>
    /\ volumeSize # None => format \in Splittable
    /\ password # None => format \in SupportsEncryption /\ ~saidNo
    /\ recoveryVolumes > 0 => format = "rar" /\ volumeSize # None

\* Who answered "No encryption" (i18n.ts:211) gets an archive without password.
NoMeansNo == Compressing /\ saidNo => password = None
=============================================================================
