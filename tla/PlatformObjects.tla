-------------------------- MODULE PlatformObjects --------------------------
(***************************************************************************)
(* The classes a P-chain transaction is made of                            *)
(* (src/apis/platformvm/inputs.ts, outputs.ts, credentials.ts,             *)
(* subnetauth.ts, locked.ts, proofOfPossession.ts and the proposals).      *)
(***************************************************************************)
EXTENDS CommonObjects

Id ==
  [SECPINPUTID |-> 5, SECPXFEROUTPUTID |-> 7, SECPCREDENTIAL |-> 9, SUBNETAUTH |-> 10,
   SECPOWNEROUTPUTID |-> 11, ADDVALIDATORTX |-> 12, ADDSUBNETVALIDATORTX |-> 13,
   ADDDELEGATORTX |-> 14, CREATECHAINTX |-> 15, CREATESUBNETTX |-> 16, IMPORTTX |-> 17,
   EXPORTTX |-> 18, STAKEABLELOCKINID |-> 21, STAKEABLELOCKOUTID |-> 22,
   REMOVESUBNETVALIDATORTX |-> 23, LOCKEDINID |-> 8192, LOCKEDOUTID |-> 8193,
   CAMINOADDVALIDATORTX |-> 8194, ADDRESSSTATETX |-> 8196, DEPOSITTX |-> 8197,
   UNLOCKDEPOSITTX |-> 8198, REGISTERNODETX |-> 8199, BASETX |-> 8200,
   MULTISIGALIASTX |-> 8201, CLAIMTX |-> 8202, SECPMULTISIGCREDENTIAL |-> 8204,
   ADDDEPOSITOFFERTX |-> 8207, ADDPROPOSALTX |-> 8208, ADDVOTETX |-> 8209,
   BASEFEEPROPOSAL |-> 8211, SIMPLEVOTE |-> 8213, ADDMEMBERPROPOSAL |-> 8214,
   ADMINPROPOSAL |-> 8215, EXCLUDEMEMBERPROPOSAL |-> 8216, GENERALPROPOSAL |-> 8217]

----------------------------------------------------------------------------
(* Inputs and outputs.                                                     *)

LockedIDs == Class(<<>>, <<Fixed("depositTxID", 32), Fixed("bondTxID", 32)>>)

SelectInputClass ==
  (Id.SECPINPUTID :> "SECPTransferInput") @@ (Id.STAKEABLELOCKINID :> "StakeableLockIn")
    @@ (Id.LOCKEDINID :> "LockedIn")

PTransferableInput == Class(<<>>, TransferableInput("SelectInputClass"))

(* TransferableInput.fromArray: a version of two bytes, and the inputs. *)
TransferableInputs ==
  NoJson(Class(<<>>, <<Constant(2, 0), List("ins", Object("", "PTransferableInput"), 4)>>))

SECPTransferInput == Class(<<Id.SECPINPUTID>>, AmountInput)

(* Its type id is that of the output it spends. *)
StakeableLockIn ==
  Class(<<Id.STAKEABLELOCKOUTID>>,
        <<Fixed("stakeableLocktime", 8)>> \o ParseableInput("SelectInputClass"))

LockedIn ==
  Class(<<Id.LOCKEDINID>>, <<Object("ids", "LockedIDs")>> \o ParseableInput("SelectInputClass"))

SelectOutputClass ==
  (Id.SECPXFEROUTPUTID :> "SECPTransferOutput") @@ (Id.SECPOWNEROUTPUTID :> "SECPOwnerOutput")
    @@ (Id.STAKEABLELOCKOUTID :> "StakeableLockOut") @@ (Id.LOCKEDOUTID :> "LockedOut")

PTransferableOutput == Class(<<>>, TransferableOutput("SelectOutputClass"))

(* TransferableOutput.fromArray. *)
TransferableOutputs ==
  NoJson(Class(<<>>, <<Constant(2, 0), List("outs", Object("", "PTransferableOutput"), 4)>>))

PParseableOutput == Class(<<>>, ParseableOutput("SelectOutputClass"))

SECPTransferOutput == Class(<<Id.SECPXFEROUTPUTID>>, AmountOutput)

SECPOwnerOutput == Class(<<Id.SECPOWNEROUTPUTID>>, OwnerParts)

StakeableLockOut ==
  Class(<<Id.STAKEABLELOCKOUTID>>,
        <<Fixed("stakeableLocktime", 8)>> \o ParseableOutput("SelectOutputClass"))

LockedOut ==
  Class(<<Id.LOCKEDOUTID>>, <<Object("ids", "LockedIDs")>> \o ParseableOutput("SelectOutputClass"))

----------------------------------------------------------------------------
(* Credentials and authorisations.                                         *)

SelectCredentialClass ==
  (Id.SECPCREDENTIAL :> "SECPCredential") @@ (Id.SECPMULTISIGCREDENTIAL :> "PMultisigCredential")

SECPCredential == Class(<<Id.SECPCREDENTIAL>>, CredentialParts)

PMultisigCredential == SECPMultisigCredential(Id.SECPMULTISIGCREDENTIAL)

(* Its JSON carries none of its indices. *)
SubnetAuth ==
  InJson(Class(<<Id.SUBNETAUTH>>,
               <<Constant(4, Id.SUBNETAUTH), List("addressIndices", Fixed("", 4), 4)>>), {})

ProofOfPossession == NoJson(Class(<<>>, <<Fixed("publicKey", 48), Fixed("signature", 96)>>))

----------------------------------------------------------------------------
(* Votes and proposals.                                                    *)

SelectVote == Id.SIMPLEVOTE :> "SimpleVote"

SimpleVote == Class(<<Id.SIMPLEVOTE>>, <<Fixed("optionIndex", 4)>>)

(* The reader does not look at the length and the codec version. *)
VoteWrapper ==
  NoJson(Class(<<>>, <<Constant(4, 10), Constant(2, 0), Tagged("vote", "SelectVote")>>))

Period == <<Fixed("start", 8), Fixed("end", 8)>>

VoteOption == NBytes("", 8)

EssentialProposal == <<List("options", VoteOption, 4)>> \o Period

(* Its JSON gives back nothing for each option. *)
BaseFeeProposal ==
  InJson(Class(<<Id.BASEFEEPROPOSAL>>, EssentialProposal), {"start", "end"})

AddMemberProposal == Class(<<Id.ADDMEMBERPROPOSAL>>, <<Fixed("applicantAddress", 20)>> \o Period)

ExcludeMemberProposal == Class(<<Id.EXCLUDEMEMBERPROPOSAL>>, <<Fixed("memberAddress", 20)>> \o Period)

SelectMemberProposal ==
  (Id.ADDMEMBERPROPOSAL :> "AddMemberProposal")
    @@ (Id.EXCLUDEMEMBERPROPOSAL :> "ExcludeMemberProposal")

AdminProposal ==
  NoJson(Class(<<Id.ADMINPROPOSAL>>,
               <<Fixed("optionIndex", 4), Tagged("proposal", "SelectMemberProposal")>>))

GeneralVoteOption == Bytes("", 4)

GeneralProposal ==
  NoJson(Class(<<Id.GENERALPROPOSAL>>,
    <<List("options", GeneralVoteOption, 4)>> \o Period
      \o <<Fixed("totalVotedThresholdNominator", 8), Fixed("mostVotedThresholdNominator", 8),
           Fixed("allowEarlyFinish", 1)>>))

SelectProposal ==
  (Id.BASEFEEPROPOSAL :> "BaseFeeProposal") @@ (Id.ADMINPROPOSAL :> "AdminProposal")
    @@ (Id.GENERALPROPOSAL :> "GeneralProposal") @@ SelectMemberProposal

ProposalWrapper == NoJson(Class(<<>>, <<Constant(2, 0), Tagged("proposal", "SelectProposal")>>))

----------------------------------------------------------------------------
PlatformSelect ==
  [SelectInputClass |-> SelectInputClass, SelectOutputClass |-> SelectOutputClass,
   SelectCredentialClass |-> SelectCredentialClass, SelectVote |-> SelectVote,
   SelectMemberProposal |-> SelectMemberProposal, SelectProposal |-> SelectProposal]

PlatformClasses ==
  [LockedIDs |-> LockedIDs, PTransferableInput |-> PTransferableInput,
   TransferableInputs |-> TransferableInputs, SECPTransferInput |-> SECPTransferInput,
   StakeableLockIn |-> StakeableLockIn, LockedIn |-> LockedIn,
   PTransferableOutput |-> PTransferableOutput, TransferableOutputs |-> TransferableOutputs,
   PParseableOutput |-> PParseableOutput, SECPTransferOutput |-> SECPTransferOutput,
   SECPOwnerOutput |-> SECPOwnerOutput, StakeableLockOut |-> StakeableLockOut,
   LockedOut |-> LockedOut, SECPCredential |-> SECPCredential,
   PMultisigCredential |-> PMultisigCredential, SubnetAuth |-> SubnetAuth,
   ProofOfPossession |-> ProofOfPossession, SimpleVote |-> SimpleVote,
   VoteWrapper |-> VoteWrapper, BaseFeeProposal |-> BaseFeeProposal,
   AddMemberProposal |-> AddMemberProposal, ExcludeMemberProposal |-> ExcludeMemberProposal,
   AdminProposal |-> AdminProposal, GeneralProposal |-> GeneralProposal,
   ProposalWrapper |-> ProposalWrapper]
============================================================================
