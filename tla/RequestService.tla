---------------------------- MODULE RequestService ----------------------------
(***************************************************************************)
(* What sendREQUEST promises a library operation, without pool, handles or *)
(* libcurl: while a client's call is open the server may receive the       *)
(* call's own request, exactly as the call states it, at most twice (a     *)
(* dead kept-alive connection makes libcurl repeat it); the call ends with *)
(* a response only after the server received the request, and the body of  *)
(* that response is (the beginning of) the reply to this very call.        *)
(***************************************************************************)
EXTENDS Naturals, Sequences

CONSTANTS Clients, MaxCalls, Codes, Parts,
          Calls,      \* what a client may ask
          NoCall,
          Message(_)  \* the request a call makes the server see

VARIABLES calls,   \* client -> calls it has started
          open,    \* client -> the call it waits for, or NoCall
          served,  \* client -> what the server received of its latest call
          answer   \* client -> how the latest call ended

vars == <<calls, open, served, answer>>

NoAnswer  == [how |-> "none", code |-> 0, body |-> <<>>]
Exception == [how |-> "throw", code |-> 0, body |-> <<>>]
Answers(c) == [how : {"return"}, code : Codes,
               body : {[i \in 1 .. n |-> <<<<c, calls[c]>>, i>>] : n \in 0 .. Parts}]

Init ==
  /\ calls = [c \in Clients |-> 0]
  /\ open = [c \in Clients |-> NoCall]
  /\ served = [c \in Clients |-> <<>>]
  /\ answer = [c \in Clients |-> NoAnswer]

Ask(c) ==
  /\ open[c] = NoCall
  /\ calls[c] < MaxCalls[c]
  /\ calls' = [calls EXCEPT ![c] = @ + 1]
  /\ \E x \in Calls : open' = [open EXCEPT ![c] = x]
  /\ served' = [served EXCEPT ![c] = <<>>]
  /\ answer' = [answer EXCEPT ![c] = NoAnswer]

Serve(c) ==
  /\ open[c] # NoCall
  /\ Len(served[c]) < 2
  /\ served' = [served EXCEPT ![c] = Append(@, Message(open[c]))]
  /\ UNCHANGED <<calls, open, answer>>

Close(c, a) ==
  /\ open[c] # NoCall
  /\ open' = [open EXCEPT ![c] = NoCall]
  /\ answer' = [answer EXCEPT ![c] = a]
  /\ UNCHANGED <<calls, served>>

Answer(c) == served[c] # <<>> /\ \E a \in Answers(c) : Close(c, a)
Fail(c)   == Close(c, Exception)

Next == \E c \in Clients : Ask(c) \/ Serve(c) \/ Answer(c) \/ Fail(c)

Spec == Init /\ [][Next]_vars
==============================================================================
