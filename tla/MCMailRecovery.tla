--------------------------- MODULE MCMailRecovery ---------------------------
(* A server with its disk, one other server and one user, for whom the     *)
(* server has made an account and a mail, written and answered for.        *)
EXTENDS MailRecovery

account == [procID |-> Me, index |-> 0, type |-> "NEWUSERMSG",
            user |-> CHOOSE u \in Users : TRUE, mail |-> [procID |-> Me, index |-> 0]]

letter == [procID |-> Me, index |-> 1, type |-> "NEWMAILMSG",
           user |-> account.user, mail |-> [procID |-> Me, index |-> 1]]

AccountSpec ==
    /\ up = TRUE
    /\ st = applyUpdate(applyUpdate(initialState(Me), Me, account), Me, letter)
    /\ todo = <<>> /\ sending = {} /\ replay = NumServers + 1
    /\ disk = [f \in {BufferFile(Me), MatrixFile, UserList, UserFile(account.user)} |->
                  CASE f = BufferFile(Me) -> st.buffer
                    [] f = MatrixFile -> st.latest_update
                    [] f = UserList -> st.users
                    [] f = UserFile(account.user) -> st.emails[account.user]]
    /\ unset = {}
    /\ made = st.buffer /\ issued = made /\ others = {}
    /\ torn = FALSE /\ crashes = 0
    /\ doing = {} /\ effects = made /\ passedOver = {}
    /\ [][Next]_vars
=============================================================================
