-------------------------- MODULE MCTorchDistributed --------------------------
(* The four torch.distributed programs on pseudo-random inputs. *)
EXTENDS TorchDistributed, SampleInputs
=============================================================================
