------------------------------ MODULE BankRules ------------------------------
(***************************************************************************)
(* The rules of the bank monitor's arbiter                                 *)
(* (experiments/tessla_compare/bank.c), one definition per rule, in the    *)
(* order of the code.  Out is what the bank program prints, In what it     *)
(* reads.                                                                  *)
(***************************************************************************)
EXTENDS ArbiterRules

(* Variants: a hole is passed over without a Clear; the end of Out leaves  *)
(* the events of In where they are.                                        *)
AHoleSilent == On(Starts(<<"hole">>), Whatever, Skip(<<1, 0>>, "aligning"))
AOutDoneStays == On(Done, Whatever, Skip(<<0, 0>>, "aligning"))

(* Variant: a transfer lines up as the other transactions do. *)
ITransferGap == On(Starts(<<"transfer">>), Starts(<<"numIn">>), Align(1, 4))


(* RULE_SET_aligning: go on to the next event of Out that starts a         *)
(* transaction.                                                            *)
AHole == On(Starts(<<"hole">>), Whatever,
            Body("Clear", 0, <<1, 0>>, "aligning"))
ABalance == On(Starts(<<"balance">>), Whatever, Skip(<<0, 0>>, "align_in"))
ADepositTo == On(Starts(<<"depositTo">>), Whatever, Skip(<<0, 0>>, "align_in"))
AWithdraw == On(Starts(<<"withdraw">>), Whatever, Skip(<<0, 0>>, "align_in"))
ATransfer == On(Starts(<<"transfer">>), Whatever, Skip(<<0, 0>>, "align_in"))
AOther == On(AtLeast(1), Whatever, Skip(<<1, 0>>, "aligning"))
AOutDone == On(Done, Whatever, Skip(<<0, 0>>, "align_in"))

Aligning == RuleSet(<<1, 0>>, <<AHole, ABalance, ADepositTo, AWithdraw, ATransfer,
                                AOther, AOutDone>>)

(* RULE_SET_align_in: go on to the event of In that asked for it. *)
IBalance == On(Starts(<<"balance">>), Starts(<<"numIn">>), Align(1, 3))
IDepositTo == On(Starts(<<"depositTo">>), Starts(<<"numIn">>), Align(1, 1))
IWithdraw == On(Starts(<<"withdraw">>), Starts(<<"numIn">>), Align(1, 2))
ITransfer == On(Starts(<<"transfer">>), Starts(<<"numIn">>), Align(4, 4))
ILogout == On(Starts(<<"logout">>), Whatever, Impossible)
INumOut == On(Starts(<<"numOut">>), Whatever, Impossible)
ISelectedAccount == On(Starts(<<"selectedAccount">>), Whatever, Impossible)
IDepositSuccess == On(Starts(<<"depositSuccess">>), Whatever, Impossible)
IDepositFail == On(Starts(<<"depositFail">>), Whatever, Impossible)
IWithdrawSuccess == On(Starts(<<"withdrawSuccess">>), Whatever, Impossible)
IWithdrawFail == On(Starts(<<"withdrawFail">>), Whatever, Impossible)
ITransferSuccess == On(Starts(<<"transferSuccess">>), Whatever, Impossible)
IHole == On(AtLeast(1), Starts(<<"hole">>),
            Body("Clear", 0, <<0, 1>>, "align_in"))
IOtherIn == On(AtLeast(1), Starts(<<"otherIn">>), Skip(<<0, 1>>, "align_in"))
IOutDone == On(Done, AtLeast(1), Skip(<<0, 1>>, "align_in"))
IInDone == On(AtLeast(1), Done, Skip(<<1, 0>>, "aligning"))

AlignIn == RuleSet(<<1, 1>>, <<IBalance, IDepositTo, IWithdraw, ITransfer, ILogout,
                               INumOut, ISelectedAccount, IDepositSuccess,
                               IDepositFail, IWithdrawSuccess, IWithdrawFail,
                               ITransferSuccess, IHole, IOtherIn, IOutDone, IInDone>>)

(* RULE_SET_working: report the transaction, if all of it is there.        *)
WTransfer == On(Starts(<<"transfer", "transferSuccess">>), Starts(<<"numIn", "numIn", "numIn">>),
                Body("SawTransfer", 4, <<2, 3>>, "aligning"))
WTransferOther == On(Starts(<<"transfer", "transferSuccess">>), AtLeast(3),
                     Skip(<<2, 1>>, "aligning"))
WTransferFail == On(Starts(<<"transfer", "selectedAccount">>), Starts(<<"numIn", "numIn", "numIn">>),
                    Body("SawTransferFail", 4, <<2, 3>>, "aligning"))
WTransferFailOther == On(Starts(<<"transfer", "selectedAccount">>), AtLeast(3),
                         Skip(<<2, 1>>, "aligning"))
WTransferHole == On(Starts(<<"transfer", "hole">>), Whatever,
                    Skip(<<1, 0>>, "aligning"))
WTransferInHole == On(Starts(<<"transfer">>), Starts(<<"numIn", "hole">>),
                      Skip(<<1, 1>>, "aligning"))
WTransferOtherIn == On(Starts(<<"transfer">>), Starts(<<"numIn", "otherIn">>),
                       Skip(<<1, 2>>, "aligning"))
WBalance == On(Starts(<<"balance", "numOut">>), Starts(<<"numIn">>),
               Body("SawBalance", 3, <<2, 1>>, "aligning"))
WBalanceHole == On(Starts(<<"balance", "hole">>), Whatever,
                   Skip(<<1, 0>>, "aligning"))
WDeposit == On(Starts(<<"depositTo", "depositSuccess">>), Starts(<<"numIn", "numIn">>),
               Timed(Body("SawDeposit", 1, <<2, 2>>, "aligning")))
WDepositFail == On(Starts(<<"depositTo", "depositFail">>), Starts(<<"numIn", "numIn">>),
                   Body("none", 1, <<2, 2>>, "aligning"))
WDepositFailInHole == On(Starts(<<"depositTo", "depositFail">>), Starts(<<"numIn", "hole">>),
                         Body("none", 1, <<2, 1>>, "aligning"))
WDepositInHole == On(Starts(<<"depositTo", "depositSuccess">>), Starts(<<"numIn", "hole">>),
                     Body("none", 1, <<2, 1>>, "aligning"))
WDepositHole == On(Starts(<<"depositTo", "hole">>), Whatever,
                   Skip(<<1, 0>>, "aligning"))
WWithdraw == On(Starts(<<"withdraw", "withdrawSuccess">>), Starts(<<"numIn", "numIn">>),
                Body("SawWithdraw", 2, <<2, 2>>, "aligning"))
WWithdrawFail == On(Starts(<<"withdraw", "withdrawFail">>), Starts(<<"numIn", "numIn">>),
                    Body("SawWithdrawFail", 2, <<2, 2>>, "aligning"))
WWithdrawInHole == On(Starts(<<"withdraw", "withdrawSuccess">>), Starts(<<"numIn", "hole">>),
                      Skip(<<2, 1>>, "aligning"))
WWithdrawFailInHole == On(Starts(<<"withdraw", "withdrawFail">>), Starts(<<"numIn", "hole">>),
                          Skip(<<2, 1>>, "aligning"))
WWithdrawFailOtherIn == On(Starts(<<"withdraw", "withdrawFail">>), Starts(<<"numIn", "otherIn">>),
                           Body("none", 2, <<2, 2>>, "aligning"))
WWithdrawOtherIn == On(Starts(<<"withdraw", "withdrawSuccess">>), Starts(<<"numIn", "otherIn">>),
                       Skip(<<2, 2>>, "aligning"))
WWithdrawHole == On(Starts(<<"withdraw", "hole">>), Whatever,
                    Skip(<<1, 0>>, "aligning"))
WInDone == On(Whatever, Done, Skip(<<0, 0>>, "aligning"))
WOutDone == On(Done, Whatever, Skip(<<0, 0>>, "aligning"))

Working == RuleSet(<<2, 3>>, <<WTransfer, WTransferOther, WTransferFail,
                               WTransferFailOther, WTransferHole, WTransferInHole,
                               WTransferOtherIn, WBalance, WBalanceHole, WDeposit,
                               WDepositFail, WDepositFailInHole, WDepositInHole,
                               WDepositHole, WWithdraw, WWithdrawFail,
                               WWithdrawInHole, WWithdrawFailInHole,
                               WWithdrawFailOtherIn, WWithdrawOtherIn,
                               WWithdrawHole, WInDone, WOutDone>>)

RuleSets == [aligning |-> Aligning, align_in |-> AlignIn, working |-> Working]
=============================================================================
