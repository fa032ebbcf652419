--------------------------- MODULE MCVulkanObjects ---------------------------
(* An instance of VulkanObjects for TLC.  Sources, slots, images and keys    *)
(* are interchangeable in Init and Next.                                     *)
EXTENDS VulkanObjects

\* Every strategy the inventory issues; compute strategies on a device with packed staging as well,
\* so that VulkanDmaBufImporter::new makes two pipelines.
SomeDevices ==
  {[strategy |-> s, packed |-> s \in Compute \cup {Packed}] :
     s \in Compute \cup {Packed, "DirectSampledImage", "DirectImageToOptimalYuvPlanes",
                         "LinearBufferToOptimalYuvPlanes", "lane"}}

Symmetry == Permutations(Sources) \cup Permutations(Slots)
            \cup Permutations(Images) \cup Permutations(Keys)
=============================================================================
