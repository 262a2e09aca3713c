------------------------------ MODULE MCOtpFlows ------------------------------
(* OtpFlows on a small instance, for TLC.                                  *)
EXTENDS OtpFlows

(* A bound: no more than this many requests for a registration code.  What *)
(* tells the flows apart in OtpFlows takes a third request in sign-in only.*)
MaxRegistrationRequests == 2

RegistrationBound ==
    flow = "registration" =>
        Cardinality({q \in Request : request[q] # None}) <= MaxRegistrationRequests
=============================================================================
