------------------------------- MODULE Mailbox -------------------------------
(***************************************************************************)
(* What task_executor promises to those who post: two first-in first-out    *)
(* mailboxes, one for other threads and one for the IO thread itself, whose *)
(* letters are taken one at a time, each once.  Letters are left behind     *)
(* only after the reader was closed.                                        *)
(***************************************************************************)
EXTENDS Sequences

CONSTANT Letter

VARIABLES app_mail, io_mail, open

mailVars == <<app_mail, io_mail, open>>

MailInit == app_mail = <<>> /\ io_mail = <<>> /\ open = TRUE

Put(box, other) ==
    /\ \E letter \in Letter : box' = Append(box, letter)
    /\ UNCHANGED <<other, open>>

Take(box, other) ==
    /\ box # <<>>
    /\ box' = Tail(box)
    /\ UNCHANGED <<other, open>>

Close == open /\ open' = FALSE /\ UNCHANGED <<app_mail, io_mail>>

MailNext ==
    \/ Put(app_mail, io_mail) \/ Put(io_mail, app_mail)
    \/ Take(app_mail, io_mail) \/ Take(io_mail, app_mail)
    \/ Close

MailSafety == MailInit /\ [][MailNext]_mailVars
=============================================================================
