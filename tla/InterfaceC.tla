----------------------------- MODULE InterfaceC -----------------------------
(***************************************************************************)
(* The functions of the C interface: each calls the C++ function of the    *)
(* same name.  Structs of one number stand for the enumerations, char      *)
(* const * for std::string.  Those whose names end in _fortran serve the   *)
(* Fortran interface and call the C function.                              *)
(***************************************************************************)
EXTENDS InterfaceRows

(***************************************************************************)
(* Objects                                                                 *)
(***************************************************************************)
\* KIM_Collections_c.cpp
CollectionsItems ==
  Of("Collections", {
    Call("GetItemType", <<Text("itemName"), Out("itemType")>>),
    Call("GetItemLibraryFileNameAndCollection", <<In("itemType"), Text("itemName"), OutText("fileName"),
      Out("collection")>>),
    Call("CacheListOfItemMetadataFiles", <<In("itemType"), Text("itemName"), Out("extent")>>),
    Call("GetItemMetadataFile", <<Index("index"), OptionalText("fileName"), Out("fileLength"),
      Out("fileRawData"), Out("availableAsString"), TextOrNull("fileString")>>),
    As("GetItemMetadataFile_fortran", Call("GetItemMetadataFile", <<Index("index"), Out("fileName"),
      Out("fileLength"), Out("fileRawData"), Out("availableAsString"), Out("fileString")>>))})

CollectionsNames ==
  Of("Collections", {
    Call("CacheListOfItemNamesByType", <<In("itemType"), Out("extent")>>),
    Call("GetItemNameByType", <<Index("index"), OutText("itemName")>>),
    Call("CacheListOfItemNamesByCollectionAndType", <<In("collection"), In("itemType"),
      Out("extent")>>),
    Call("GetItemNameByCollectionAndType", <<Index("index"), OutText("itemName")>>),
    Call("GetItemLibraryFileNameByCollectionAndType", <<In("collection"), In("itemType"),
      Text("itemName"), OutText("fileName")>>),
    Call("CacheListOfItemMetadataFilesByCollectionAndType", <<In("collection"), In("itemType"),
      Text("itemName"), Out("extent")>>)})

CollectionsFiles ==
  Of("Collections", {
    Call("GetItemMetadataFileByCollectionAndType", <<Index("index"), OptionalText("fileName"),
      Out("fileLength"), Out("fileRawData"), Out("availableAsString"), TextOrNull("fileString")>>),
    As("GetItemMetadataFileByCollectionAndType_fortran", Call("GetItemMetadataFileByCollectionAndType",
      <<Index("index"), Out("fileName"), Out("fileLength"), Out("fileRawData"),
      Out("availableAsString"), Out("fileString")>>)),
    Do("GetProjectNameAndSemVer", <<OptionalText("projectName"), OptionalText("semVer")>>)})

CollectionsDirectories ==
  Of("Collections", {
    Call("GetEnvironmentVariableName", <<In("itemType"), OutText("name")>>),
    Do("GetConfigurationFileEnvironmentVariable", <<OptionalText("name"), OptionalText("value")>>),
    Do("GetConfigurationFileName", <<OutText("fileName")>>),
    Call("CacheListOfDirectoryNames", <<In("collection"), In("itemType"), Out("extent")>>),
    Call("GetDirectoryName", <<Index("index"), OutText("directoryName")>>),
    Do("SetLogID", <<Text("logID")>>),
    Do("PushLogVerbosity", <<In("logVerbosity")>>),
    Do("PopLogVerbosity", <<>>)})

\* KIM_ComputeArguments_c.cpp
ComputeArguments ==
  Of("ComputeArguments", {
    Call("GetArgumentSupportStatus", <<In("computeArgumentName"), Out("supportStatus")>>),
    Call("GetCallbackSupportStatus", <<In("computeCallbackName"), Out("supportStatus")>>),
    Call("SetArgumentPointerInteger", <<In("computeArgumentName"), In("ptr")>>),
    Call("SetArgumentPointerDouble", <<In("computeArgumentName"), In("ptr")>>),
    Call("SetCallbackPointer", <<In("computeCallbackName"), In("languageName"), In("fptr"),
      In("dataObject")>>),
    Do("AreAllRequiredArgumentsAndCallbacksPresent", <<Out("result")>>),
    Do("SetSimulatorBufferPointer", <<In("ptr")>>),
    Do("GetSimulatorBufferPointer", <<Out("ptr")>>),
    Say("ToString", <<>>),
    Do("SetLogID", <<Text("logID")>>),
    Do("PushLogVerbosity", <<In("logVerbosity")>>),
    Do("PopLogVerbosity", <<>>)})

\* KIM_Log_c.cpp
Log ==
  Of("Log", {
    Do("PushDefaultVerbosity", <<In("logVerbosity")>>),
    Do("PopDefaultVerbosity", <<>>),
    Do("PushDefaultPrintFunction", <<In("languageName"), In("fptr")>>),
    Do("PopDefaultPrintFunction", <<>>),
    Say("GetID", <<>>),
    Do("SetID", <<Text("id")>>),
    Do("PushVerbosity", <<In("logVerbosity")>>),
    Do("PopVerbosity", <<>>),
    Do("LogEntry", Entry)})

\* KIM_Model_c.cpp
ModelProperties ==
  Of("Model", {
    Call("Create", <<In("numbering"), In("requestedLengthUnit"), In("requestedEnergyUnit"),
      In("requestedChargeUnit"), In("requestedTemperatureUnit"), In("requestedTimeUnit"),
      Text("modelName"), Out("requestedUnitsAccepted")>>),
    Call("IsRoutinePresent", <<In("modelRoutineName"), Out("present"), Out("required")>>),
    Do("GetInfluenceDistance", <<Out("influenceDistance")>>),
    Do("GetNeighborListPointers", <<Out("numberOfNeighborLists"), Out("cutoffs"),
      Out("modelWillNotRequestNeighborsOfNoncontributingParticles")>>),
    Do("GetUnits", <<Out("lengthUnit"), Out("energyUnit"), Out("chargeUnit"), Out("temperatureUnit"),
      Out("timeUnit")>>)})

ModelOperations ==
  Of("Model", {
    Call("Compute", <<In("computeArguments")>>),
    Call("Extension", <<Text("extensionID"), In("extensionStructure")>>),
    Call("ClearThenRefresh", <<>>),
    Call("WriteParameterizedModel", <<Text("path"), Text("modelName")>>),
    Call("GetSpeciesSupportAndCode", <<In("speciesName"), Out("speciesIsSupported"), Out("code")>>),
    Do("GetNumberOfParameters", <<Out("numberOfParameters")>>),
    Call("GetParameterMetadata", <<Index("parameterIndex"), Optional("dataType"), Out("extent"),
      OptionalText("name"), OptionalText("description")>>)})

ModelParameters ==
  Of("Model", {
    Call("GetParameterInteger", <<Index("parameterIndex"), Index("arrayIndex"),
      Out("parameterValue")>>),
    Call("GetParameterDouble", <<Index("parameterIndex"), Index("arrayIndex"), Out("parameterValue")>>),
    Call("SetParameterInteger", <<Index("parameterIndex"), Index("arrayIndex"), In("parameterValue")>>),
    Call("SetParameterDouble", <<Index("parameterIndex"), Index("arrayIndex"), In("parameterValue")>>),
    Do("SetSimulatorBufferPointer", <<In("ptr")>>),
    Do("GetSimulatorBufferPointer", <<Out("ptr")>>),
    Say("ToString", <<>>),
    Do("SetLogID", <<Text("logID")>>),
    Do("PushLogVerbosity", <<In("logVerbosity")>>),
    Do("PopLogVerbosity", <<>>)})

\* KIM_ModelCompute_c.cpp
ModelCompute ==
  Of("ModelCompute", {
    Do("GetModelBufferPointer", <<Out("ptr")>>),
    Do("LogEntry", Entry),
    Say("ToString", <<>>)})

\* KIM_ModelComputeArguments_c.cpp
ModelComputeArguments ==
  Of("ModelComputeArguments", {
    Call("GetNeighborList", <<Index("neighborListIndex"), In("particleNumber"),
      Out("numberOfNeighbors"), Out("neighborsOfParticle")>>),
    Call("ProcessDEDrTerm", <<In("de"), In("r"), In("dx"), In("i"), In("j")>>),
    Call("ProcessD2EDr2Term", <<In("de"), In("r"), In("dx"), In("i"), In("j")>>),
    Call("GetArgumentPointerInteger", <<In("computeArgumentName"), Out("ptr")>>),
    Call("GetArgumentPointerDouble", <<In("computeArgumentName"), Out("ptr")>>),
    Call("IsCallbackPresent", <<In("computeCallbackName"), Out("present")>>),
    Do("SetModelBufferPointer", <<In("ptr")>>),
    Do("GetModelBufferPointer", <<Out("ptr")>>),
    Do("LogEntry", Entry),
    Say("ToString", <<>>)})

\* KIM_ModelComputeArgumentsCreate_c.cpp
ModelComputeArgumentsCreate ==
  Of("ModelComputeArgumentsCreate", {
    Call("SetArgumentSupportStatus", <<In("computeArgumentName"), In("supportStatus")>>),
    Call("SetCallbackSupportStatus", <<In("computeCallbackName"), In("supportStatus")>>),
    Do("SetModelBufferPointer", <<In("ptr")>>),
    Do("LogEntry", Entry),
    Say("ToString", <<>>)})

\* KIM_ModelComputeArgumentsDestroy_c.cpp
ModelComputeArgumentsDestroy ==
  Of("ModelComputeArgumentsDestroy", {
    Do("GetModelBufferPointer", <<Out("ptr")>>),
    Do("LogEntry", Entry),
    Say("ToString", <<>>)})

\* KIM_ModelCreate_c.cpp
ModelCreateSettings ==
  Of("ModelCreate", {
    Call("SetModelNumbering", <<In("numbering")>>),
    Do("SetInfluenceDistancePointer", <<In("influenceDistance")>>),
    Do("SetNeighborListPointers", <<In("numberOfNeighborLists"), In("cutoffs"),
      In("modelWillNotRequestNeighborsOfNoncontributingParticles")>>),
    Call("SetRoutinePointer", <<In("modelRoutineName"), In("languageName"), In("required"),
      In("fptr")>>),
    Call("SetSpeciesCode", <<In("speciesName"), In("code")>>),
    Call("SetParameterPointerInteger", <<In("extent"), In("ptr"), Text("name"), Text("description")>>),
    Call("SetParameterPointerDouble", <<In("extent"), In("ptr"), Text("name"), Text("description")>>)})

ModelCreateUnits ==
  Of("ModelCreate", {
    Do("SetModelBufferPointer", <<In("ptr")>>),
    Call("SetUnits", UnitsIn),
    Call("ConvertUnit", UnitConversion),
    Do("LogEntry", Entry),
    Say("ToString", <<>>)})

\* KIM_ModelDestroy_c.cpp
ModelDestroy ==
  Of("ModelDestroy", {
    Do("GetModelBufferPointer", <<Out("ptr")>>),
    Do("LogEntry", Entry),
    Say("ToString", <<>>)})

\* KIM_ModelDriverCreate_c.cpp
ModelDriverCreateFiles ==
  Of("ModelDriverCreate", {
    Do("GetParameterFileDirectoryName", <<OutText("directoryName")>>),
    Do("GetNumberOfParameterFiles", <<Out("numberOfParameterFiles")>>),
    Call("GetParameterFileName", <<Index("index"), OptionalText("parameterFileName")>>),
    Call("GetParameterFileBasename", <<Index("index"), OptionalText("parameterFileBasename")>>),
    Call("SetModelNumbering", <<In("numbering")>>),
    Do("SetInfluenceDistancePointer", <<In("influenceDistance")>>),
    Do("SetNeighborListPointers", <<In("numberOfNeighborLists"), In("cutoffs"),
      In("modelWillNotRequestNeighborsOfNoncontributingParticles")>>),
    Call("SetRoutinePointer", <<In("modelRoutineName"), In("languageName"), In("required"),
      In("fptr")>>)})

ModelDriverCreateParameters ==
  Of("ModelDriverCreate", {
    Call("SetSpeciesCode", <<In("speciesName"), In("code")>>),
    Call("SetParameterPointerInteger", <<In("extent"), In("ptr"), Text("name"), Text("description")>>),
    Call("SetParameterPointerDouble", <<In("extent"), In("ptr"), Text("name"), Text("description")>>),
    Do("SetModelBufferPointer", <<In("ptr")>>),
    Call("SetUnits", UnitsIn),
    Call("ConvertUnit", UnitConversion),
    Do("LogEntry", Entry),
    Say("ToString", <<>>)})

\* KIM_ModelExtension_c.cpp
ModelExtensionID ==
  Of("ModelExtension", {
    Do("GetExtensionID", <<OutText("extensionID")>>)})

ModelExtension ==
  Of("ModelExtension", {
    Do("GetModelBufferPointer", <<Out("ptr")>>),
    Do("LogEntry", Entry),
    Say("ToString", <<>>)})

\* KIM_ModelRefresh_c.cpp
ModelRefresh ==
  Of("ModelRefresh", {
    Do("SetInfluenceDistancePointer", <<In("influenceDistance")>>),
    Do("SetNeighborListPointers", <<In("numberOfNeighborLists"), In("cutoffs"),
      In("modelWillNotRequestNeighborsOfNoncontributingParticles")>>),
    Do("GetModelBufferPointer", <<Out("ptr")>>),
    Do("LogEntry", Entry),
    Say("ToString", <<>>)})

\* KIM_ModelWriteParameterizedModel_c.cpp
ModelWriteParameterizedModel ==
  Of("ModelWriteParameterizedModel", {
    Do("GetPath", <<OutText("path")>>),
    Do("GetModelName", <<OutText("modelName")>>),
    Do("SetParameterFileName", <<Text("fileName")>>),
    Do("GetModelBufferPointer", <<Out("ptr")>>),
    Do("LogEntry", Entry),
    Say("ToString", <<>>)})

\* KIM_SimulatorModel_c.cpp
SimulatorModelFields ==
  Of("SimulatorModel", {
    Do("GetSimulatorNameAndVersion", <<OptionalText("simulatorName"),
      OptionalText("simulatorVersion")>>),
    Do("GetNumberOfSupportedSpecies", <<Out("numberOfSupportedSpecies")>>),
    Call("GetSupportedSpecies", <<Index("index"), OutText("speciesName")>>),
    Do("OpenAndInitializeTemplateMap", <<>>),
    Ask("TemplateMapIsOpen", <<>>),
    Call("AddTemplateMap", <<Text("key"), Text("value")>>),
    Do("CloseTemplateMap", <<>>),
    Do("GetNumberOfSimulatorFields", <<Out("numberOfSimulatorFields")>>),
    Call("GetSimulatorFieldMetadata", <<Index("fieldIndex"), Out("extent"),
      OptionalText("fieldName")>>)})

SimulatorModelFiles ==
  Of("SimulatorModel", {
    Call("GetSimulatorFieldLine", <<Index("fieldIndex"), Index("lineIndex"), OutText("lineValue")>>),
    Do("GetParameterFileDirectoryName", <<OutText("directoryName")>>),
    Do("GetSpecificationFileName", <<OutText("specificationFileName")>>),
    Do("GetNumberOfParameterFiles", <<Out("numberOfParameterFiles")>>),
    Call("GetParameterFileName", <<Index("index"), OutText("parameterFileName")>>),
    Call("GetParameterFileBasename", <<Index("index"), OutText("parameterFileBasename")>>),
    Do("SetSimulatorBufferPointer", <<In("ptr")>>),
    Do("GetSimulatorBufferPointer", <<Out("ptr")>>),
    Say("ToString", <<>>),
    Do("SetLogID", <<Text("logID")>>),
    Do("PushLogVerbosity", <<In("logVerbosity")>>),
    Do("PopLogVerbosity", <<>>)})

\* KIM_SemVer_c.cpp
SemVer ==
  Of("SemVer", {
    Say("GetSemVer", <<>>),
    Call("IsLessThan", <<Text("lhs"), Text("rhs"), Out("isLessThan")>>)})

(***************************************************************************)
(* Enumerations                                                            *)
(***************************************************************************)
ChargeUnit == Enumeration("ChargeUnit")
CollectionItemType == Enumeration("CollectionItemType")
Collection == Enumeration("Collection")
ComputeArgumentName ==
  Enumeration("ComputeArgumentName")
  \cup Of("ComputeArgumentName", {Call("GetComputeArgumentDataType", <<In("value"), Out("dataType")>>)})
ComputeCallbackName == Enumeration("ComputeCallbackName")
DataType == Enumeration("DataType")
EnergyUnit == Enumeration("EnergyUnit")
LanguageName == Enumeration("LanguageName")
LengthUnit == Enumeration("LengthUnit")
LogVerbosity == Enumeration("LogVerbosity")
ModelRoutineName == Enumeration("ModelRoutineName")
Numbering == Enumeration("Numbering")
SpeciesName == Enumeration("SpeciesName")
SupportStatus == Enumeration("SupportStatus")
TemperatureUnit == Enumeration("TemperatureUnit")
TimeUnit == Enumeration("TimeUnit")

(***************************************************************************)
(* All of them                                                             *)
(***************************************************************************)
Rows ==
  UNION {CollectionsItems, CollectionsNames, CollectionsFiles, CollectionsDirectories,
    ComputeArguments, Log, ModelProperties, ModelOperations, ModelParameters, ModelCompute,
    ModelComputeArguments, ModelComputeArgumentsCreate, ModelComputeArgumentsDestroy,
    ModelCreateSettings, ModelCreateUnits, ModelDestroy, ModelDriverCreateFiles,
    ModelDriverCreateParameters, ModelExtensionID, ModelExtension, ModelRefresh,
    ModelWriteParameterizedModel, SimulatorModelFields, SimulatorModelFiles, SemVer, ChargeUnit,
    CollectionItemType, Collection, ComputeArgumentName, ComputeCallbackName, DataType,
    EnergyUnit, LanguageName, LengthUnit, LogVerbosity, ModelRoutineName, Numbering,
    SpeciesName, SupportStatus, TemperatureUnit, TimeUnit}
=============================================================================
