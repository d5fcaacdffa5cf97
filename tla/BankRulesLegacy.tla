--------------------------- MODULE BankRulesLegacy ---------------------------
(***************************************************************************)
(* The rules of the arbiter that calls a monitor compiled from TeSSLa      *)
(* (experiments/bank-tessla/legacy/bankmontessla.c).                       *)
(***************************************************************************)
EXTENDS ArbiterRules

Gen == INSTANCE BankRulesGen

AHole == Gen!AHole
ABalance == Gen!ABalance
ADepositTo == Gen!ADepositTo
AWithdraw == Gen!AWithdraw
ATransfer == Gen!ATransfer
AOther == Gen!AOther
AOutDone == Gen!AOutDone

Aligning == RuleSet(<<1, 0>>, <<AHole, ABalance, ADepositTo, AWithdraw,
                                ATransfer, AOther, AOutDone>>)

IBalance == Gen!IBalance
IDepositTo == Gen!IDepositTo
IWithdraw == Gen!IWithdraw
ITransfer == Gen!ITransfer
ILogout == Gen!ILogout
INumOut == Gen!INumOut
ISelectedAccount == Gen!ISelectedAccount
IDepositSuccess == Gen!IDepositSuccess
IDepositFail == Gen!IDepositFail
IWithdrawSuccess == Gen!IWithdrawSuccess
IWithdrawFail == Gen!IWithdrawFail
ITransferSuccess == Gen!ITransferSuccess
IHole == Gen!IHole
IOtherIn == Gen!IOtherIn
IOutDone == Gen!IOutDone
IInDone == Gen!IInDone

AlignIn == RuleSet(<<1, 1>>, <<IBalance, IDepositTo, IWithdraw, ITransfer,
                               ILogout, INumOut, ISelectedAccount,
                               IDepositSuccess, IDepositFail, IWithdrawSuccess,
                               IWithdrawFail, ITransferSuccess, IHole, IOtherIn,
                               IOutDone, IInDone>>)

WTransfer == Gen!WTransfer
WTransferOther == Gen!WTransferOther
WTransferFail == Gen!WTransferFail
WTransferFailOther == Gen!WTransferFailOther
WTransferHole == Gen!WTransferHole
WTransferInHole == Gen!WTransferInHole
WTransferOtherIn == Gen!WTransferOtherIn
WBalance == Gen!WBalance
WBalanceHole == Gen!WBalanceHole
WDeposit == Gen!WDeposit
WDepositFail == Gen!WDepositFail
WDepositFailInHole == Gen!WDepositFailInHole
WDepositInHole == Gen!WDepositInHole
WDepositHole == Gen!WDepositHole
WWithdraw == Gen!WWithdraw
WWithdrawFail == Gen!WWithdrawFail
WWithdrawInHole == Gen!WWithdrawInHole
WWithdrawFailInHole == Gen!WWithdrawFailInHole
WWithdrawHole == Gen!WWithdrawHole
WInDone == Gen!WInDone
WOutDone == Gen!WOutDone

Working == RuleSet(<<2, 3>>, <<WTransfer, WTransferOther, WTransferFail,
                               WTransferFailOther, WTransferHole,
                               WTransferInHole, WTransferOtherIn, WBalance,
                               WBalanceHole, WDeposit, WDepositFail,
                               WDepositFailInHole, WDepositInHole, WDepositHole,
                               WWithdraw, WWithdrawFail, WWithdrawInHole,
                               WWithdrawFailInHole, WWithdrawHole, WInDone,
                               WOutDone>>)

RuleSets == [aligning |-> Aligning, align_in |-> AlignIn, working |-> Working]
=============================================================================
