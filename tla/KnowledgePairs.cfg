\* Three chunks of which one may go while a question is answered.
CONSTANTS
  ChunkId = {"a", "b", "c"}
  About <- MCAbout
  Versions <- MCVersions
  Faces <- MCFaces
  Subject = {"o1", "o2"}
  Version = {"v1", "v2"}
  Day = {"d1", "d2"}
  Window <- MCWindow
  SignedOn <- MCSigned
  FaceOrder <- MCFaceOrder
  TopK = 2
  Pool = 3
  JudgeTop = 1
  MaxEdits = 1
SPECIFICATION RetrievalSpec
INVARIANT EvidenceIsPaired
CHECK_DEADLOCK FALSE
