---------------------------- MODULE BankRulesGen ----------------------------
(***************************************************************************)
(* The rules of the arbiter that prepares the input of TeSSLa              *)
(* (experiments/tessla_compare/gen_tessla_input/bank.c).  They are those   *)
(* of bank.c, without the rules for a withdrawal whose amount is no        *)
(* number.                                                                 *)
(***************************************************************************)
EXTENDS ArbiterRules

Bank == INSTANCE BankRules

AHole == Bank!AHole
ABalance == Bank!ABalance
ADepositTo == Bank!ADepositTo
AWithdraw == Bank!AWithdraw
ATransfer == Bank!ATransfer
AOther == Bank!AOther
AOutDone == Bank!AOutDone

Aligning == RuleSet(<<1, 0>>, <<AHole, ABalance, ADepositTo, AWithdraw,
                                ATransfer, AOther, AOutDone>>)

IBalance == Bank!IBalance
IDepositTo == Bank!IDepositTo
IWithdraw == Bank!IWithdraw
ITransfer == Bank!ITransfer
ILogout == Bank!ILogout
INumOut == Bank!INumOut
ISelectedAccount == Bank!ISelectedAccount
IDepositSuccess == Bank!IDepositSuccess
IDepositFail == Bank!IDepositFail
IWithdrawSuccess == Bank!IWithdrawSuccess
IWithdrawFail == Bank!IWithdrawFail
ITransferSuccess == Bank!ITransferSuccess
IHole == Bank!IHole
IOtherIn == Bank!IOtherIn
IOutDone == Bank!IOutDone
IInDone == Bank!IInDone

AlignIn == RuleSet(<<1, 1>>, <<IBalance, IDepositTo, IWithdraw, ITransfer,
                               ILogout, INumOut, ISelectedAccount,
                               IDepositSuccess, IDepositFail, IWithdrawSuccess,
                               IWithdrawFail, ITransferSuccess, IHole, IOtherIn,
                               IOutDone, IInDone>>)

WTransfer == Bank!WTransfer
WTransferOther == Bank!WTransferOther
WTransferFail == Bank!WTransferFail
WTransferFailOther == Bank!WTransferFailOther
WTransferHole == Bank!WTransferHole
WTransferInHole == Bank!WTransferInHole
WTransferOtherIn == Bank!WTransferOtherIn
WBalance == Bank!WBalance
WBalanceHole == Bank!WBalanceHole
WDeposit == Bank!WDeposit
WDepositFail == Bank!WDepositFail
WDepositFailInHole == Bank!WDepositFailInHole
WDepositInHole == Bank!WDepositInHole
WDepositHole == Bank!WDepositHole
WWithdraw == Bank!WWithdraw
WWithdrawFail == Bank!WWithdrawFail
WWithdrawInHole == Bank!WWithdrawInHole
WWithdrawFailInHole == Bank!WWithdrawFailInHole
WWithdrawHole == Bank!WWithdrawHole
WInDone == Bank!WInDone
WOutDone == Bank!WOutDone

Working == RuleSet(<<2, 3>>, <<WTransfer, WTransferOther, WTransferFail,
                               WTransferFailOther, WTransferHole,
                               WTransferInHole, WTransferOtherIn, WBalance,
                               WBalanceHole, WDeposit, WDepositFail,
                               WDepositFailInHole, WDepositInHole, WDepositHole,
                               WWithdraw, WWithdrawFail, WWithdrawInHole,
                               WWithdrawFailInHole, WWithdrawHole, WInDone,
                               WOutDone>>)

RuleSets == [aligning |-> Aligning, align_in |-> AlignIn, working |-> Working]
=============================================================================
