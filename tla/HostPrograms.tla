---------------------------- MODULE HostPrograms ----------------------------
(***************************************************************************)
(* The one-shot programs of the hosts, the mail server, the demo and CI,   *)
(* one beside the other. They share no state: each acts at steps of its    *)
(* own, on files of its own, and where two calls of one program overlap    *)
(* its module says so. A behaviour is of one module's programs, which      *)
(* "program" names.                                                        *)
(***************************************************************************)
EXTENDS DemoSlots, DemoColour, DemoUids, FirewallChain, RuntimeInstall, BootRecord,
        MailAdmin, MailSubmission, MailAccounts, MailStack, SlotKeys, ChannelKey, JumpKeys,
        Blocklist, Reputation, HostInputs, CiQueue

VARIABLE program

hostVars == <<program, programVars>>

Init ==
  \/ program = "DemoSlots" /\ DemoInit
  \/ program = "DemoColour" /\ (ColourInit \/ RouterInit \/ GoLiveInit)
  \/ program = "DemoUids" /\ UidInit
  \/ program = "FirewallChain" /\ ChainInit
  \/ program = "RuntimeInstall" /\ (RuntimeInit \/ LockInit)
  \/ program = "BootRecord" /\ (BootInit \/ FillInit)
  \/ program = "MailAdmin" /\ (MailInit \/ UnblockInit)
  \/ program = "MailSubmission" /\ (SubmissionInit \/ ShimInit \/ ScopeInit)
  \/ program = "MailAccounts" /\ (BoxInit \/ SendingInit)
  \/ program = "MailStack" /\ (ClassInit \/ ResolverInit \/ MintInit)
  \/ program = "SlotKeys" /\ SlotInit
  \/ program = "ChannelKey" /\ ChannelInit
  \/ program = "JumpKeys" /\ JumpInit
  \/ program = "Blocklist" /\ (BlocklistInit \/ AnswerInit)
  \/ program = "Reputation" /\ ReputationInit
  \/ program = "HostInputs" /\ InputsInit
  \/ program = "CiQueue" /\ QueueInit

Next ==
  /\ UNCHANGED program
  /\ \/ program = "DemoSlots" /\ DemoNext
     \/ program = "DemoColour" /\ (ColourNext \/ RouterNext \/ GoLiveNext)
     \/ program = "DemoUids" /\ UidNext
     \/ program = "FirewallChain" /\ ChainNext
     \/ program = "RuntimeInstall" /\ (RuntimeNext \/ GrowLock)
     \/ program = "BootRecord" /\ (BootNext \/ GrowVariables)
     \/ program = "MailAdmin" /\ (MailNext \/ ClearBlocked)
     \/ program = "MailSubmission" /\ (SubmitNext \/ ShimNext \/ ScopeNext)
     \/ program = "MailAccounts" /\ (BoxNext \/ SendingNext)
     \/ program = "MailStack" /\ (ClassNext \/ ResolverNext \/ MintNext)
     \/ program = "SlotKeys" /\ SlotNext
     \/ program = "ChannelKey" /\ ChannelNext
     \/ program = "JumpKeys" /\ JumpNext
     \/ program = "Blocklist" /\ (BlocklistNext \/ ReadResponse)
     \/ program = "Reputation" /\ ReputationNext
     \/ program = "HostInputs" /\ InputsNext
     \/ program = "CiQueue" /\ QueueNext

Spec == Init /\ [][Next]_hostVars

---------------------------------------------------------------------------
\* What a program reads out of a text is what whoever acts on the text reads: the kernel and
\* its tools a chain of rules, pip a lock, Ansible the references of a variable.
TextsHold == /\ program = "FirewallChain" => ChainHolds
             /\ program = "RuntimeInstall" => PipReadsNoMore
             /\ program = "BootRecord" => FillFollowsNames

\* The provisioning of the mail server: what its file, its rules, its accounts and its mailboxes
\* say of one another.
MailHolds == /\ program = "MailAdmin" => AdminHolds
             /\ program = "MailSubmission" => SubmissionHolds
             /\ program = "MailAccounts" => AccountsHold

\* The programs that keep ssh keys: the slots', the safety channel's and the jump host's report
\* what is in place.
KeysHold == /\ program = "SlotKeys" => SlotTruth
            /\ program = "ChannelKey" => PublicMatchesKey
            /\ program = "JumpKeys" => JumpHolds

\* The checks of the mail server's standing say what they know.
WatchersHold == /\ program = "Blocklist" => BlocklistHolds
                /\ program = "Reputation" => ReputationHolds

\* What a run finds is respected: a key, a host's document and a secret that are there are kept,
\* an input is taken from its own place first, and what a dead run left stops no later one.
FoundIsKept == KeyKept /\ NothingOverwritten /\ OwnPlaceFirst /\ SecretIsMadeOnce /\ DeadRunIsResumed
=============================================================================
