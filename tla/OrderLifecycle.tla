--------------------------- MODULE OrderLifecycle ---------------------------
(***************************************************************************)
(* What an OrderManager promises about one order's status, whatever the    *)
(* backend.  An order starts unused, is handed to the backend, and only    *)
(* moves forward; a terminal status is final.  A bracket may be canceled   *)
(* also once it has bought, which the life cycle in order_manager.py:24-28 *)
(* does not show: cancel_all_pending_orders does it.                       *)
(***************************************************************************)
CONSTANT OrderId

VARIABLE status \* status of every order id

Init == status = [i \in OrderId |-> "UNUSED"]

Moves == {<<"UNUSED", "PENDING">>, <<"UNUSED", "FILLED">>,
          <<"UNUSED", "PENDING_SALE">>, <<"UNUSED", "CANCELED">>,
          <<"PENDING", "FILLED">>, <<"PENDING", "PENDING_SALE">>,
          <<"PENDING", "CANCELED">>,
          <<"PENDING_SALE", "FILLED">>, <<"PENDING_SALE", "CANCELED">>}

(* One call may move several orders (cancel_all_pending_orders). *)
Next ==
    /\ status' \in [OrderId -> {"UNUSED", "PENDING", "FILLED",
                               "PENDING_SALE", "CANCELED"}]
    /\ \A i \in OrderId : status'[i] # status[i] => <<status[i], status'[i]>> \in Moves

Spec == Init /\ [][Next]_status
=============================================================================
